---- MODULE Spec2Model ----
(***************************************************************************)
(* State synchronisation core of the Govee Life integration: the State     *)
(* Cache (hass.data[DOMAIN][entry_id][CONF_STATE]), the poll coordinator,  *)
(* the control pipeline with its command echo, the light turn-on action,   *)
(* integration setup, the API client with its request counter and the      *)
(* event webhook.                                                          *)
(*                                                                         *)
(* Code between two awaits runs atomically on the event loop, so every     *)
(* action below is the code from one await to the next.  The vendor cloud  *)
(* is the environment: it answers each request in flight.                  *)
(***************************************************************************)
EXTENDS Integers, Sequences, FiniteSets, TLC

(* ------------------------------ bounds --------------------------------- *)
\* capability values range over 0..MaxValue
MaxValue == 1
\* a state response lists at most MaxCaps capabilities (SpecCache)
MaxCaps == 2

(* ----------------------------- data model ------------------------------ *)
\* Python's None, outside every value domain
None == -1

Devices == {"d1", "d2"}
Values == 0..MaxValue

ON_OFF == "devices.capabilities.on_off"
RANGE == "devices.capabilities.range"

\* the (type, instance) pairs the modelled devices expose
PowerKey == <<ON_OFF, "powerSwitch">>
BrightnessKey == <<RANGE, "brightness">>
HumidityKey == <<RANGE, "humidity">>
CapKeys == {PowerKey, BrightnessKey, HumidityKey}

\* the shapes of a capability's `state` field: missing, {"value": v}, or the
\* legacy shape {<instance>: v} without a `value` key
AbsentState == [shape |-> "absent", v |-> None]
ValueState(v) == [shape |-> "value", v |-> v]
LegacyState(v) == [shape |-> "legacy", v |-> v]

Cap(key, st) == [type |-> key[1], instance |-> key[2], state |-> st]

\* a device without an entry in CONF_STATE
NoSnapshot == [present |-> FALSE, caps |-> <<>>]
Snapshot(caps) == [present |-> TRUE, caps |-> caps]

Range(s) == {s[k] : k \in 1..Len(s)}

UniqueKeys(caps) ==
    \A a, b \in 1..Len(caps) :
        (caps[a].type = caps[b].type /\ caps[a].instance = caps[b].instance) => a = b

(* ------------------------- utils.py: API client ------------------------ *)
\* what requests.post / requests.get produced: status 0 stands for a raised
\* transport exception, parsable = FALSE for a body response.json() rejects
NoBody == [hasPayload |-> FALSE, caps |-> <<>>]
HttpFailures(B) ==
    {[status |-> s, parsable |-> TRUE, body |-> B] : s \in {0, 401, 429, 500}}
        \cup {[status |-> 200, parsable |-> FALSE, body |-> B]}

NoneResult(B) == [none |-> TRUE, json |-> B]

\* the response is null for the caller: transport error, non-2xx, unparsable
NullResponse(resp) == resp.status # 200 \/ ~resp.parsable

\* the POST without its 429 branch
POSTRequest_No429Check(response) ==
    IF response.status = 0 THEN NoneResult(response.body)
    ELSE IF response.status = 401 THEN NoneResult(response.body)
    ELSE IF response.status \notin {200, 429} THEN NoneResult(response.body)
    ELSE IF ~response.parsable THEN NoneResult(response.body)
    ELSE [none |-> FALSE, json |-> response.body]

async_GoveeAPI_POSTRequest(response) ==
    IF response.status = 0 THEN NoneResult(response.body)
    ELSE IF response.status = 429 THEN NoneResult(response.body)
    ELSE IF response.status = 401 THEN NoneResult(response.body)
    ELSE IF response.status # 200 THEN NoneResult(response.body)
    ELSE IF ~response.parsable THEN NoneResult(response.body)
    ELSE [none |-> FALSE, json |-> response.body]

(* ------------------------- utils.py: State Cache ----------------------- *)
\* cap_state.get('value', cap_state.get(value_instance)) on a matching entry
CapStateGet(cap_state) ==
    IF cap_state.shape = "value" THEN cap_state.v
    ELSE IF cap_state.shape = "legacy" THEN cap_state.v
    ELSE None

\* the scan comparing the type alone
RECURSIVE ScanCached_TypeOnly(_, _, _)
ScanCached_TypeOnly(capabilities, value_type, value_instance) ==
    IF capabilities = <<>> THEN None
    ELSE LET cap == Head(capabilities) IN
         IF cap.type = value_type /\ cap.state.shape # "absent"
         THEN CapStateGet(cap.state)
         ELSE ScanCached_TypeOnly(Tail(capabilities), value_type, value_instance)

RECURSIVE ScanCached(_, _, _)
ScanCached(capabilities, value_type, value_instance) ==
    IF capabilities = <<>> THEN None
    ELSE LET cap == Head(capabilities) IN
         IF cap.type = value_type /\ cap.instance = value_instance
                /\ cap.state.shape # "absent"
         THEN CapStateGet(cap.state)
         ELSE ScanCached(Tail(capabilities), value_type, value_instance)

GoveeAPI_GetCachedStateValue(state, device_id, value_type, value_instance) ==
    IF ~state[device_id].present THEN None
    ELSE ScanCached(state[device_id].caps, value_type, value_instance)

\* a failed request clears the device's cached snapshot
GetDeviceState_ClearOnFailure(snap, result) ==
    IF result.none THEN [ret |-> "False", snap |-> Snapshot(<<>>)]
    ELSE [ret |-> "True",
          snap |-> Snapshot(IF result.json.hasPayload THEN result.json.caps ELSE <<>>)]

\* the routine folding the payload into the snapshot it finds: the entries
\* of the old snapshot that the payload does not carry are kept
GetDeviceState_Merging(snap, result) ==
    IF result.none THEN [ret |-> "False", snap |-> snap]
    ELSE LET payload == IF result.json.hasPayload THEN result.json.caps ELSE <<>>
             Carried(c) == \E k \in 1..Len(payload) :
                                /\ payload[k].type = c.type
                                /\ payload[k].instance = c.instance
         IN [ret |-> "True",
             snap |-> Snapshot(payload \o
                               (IF snap.present
                                THEN SelectSeq(snap.caps, LAMBDA c : ~Carried(c))
                                ELSE <<>>))]

\* result = [ret, snap]: the return value ("True", "False"; a status code is
\* returned only for an integer result, which async_GoveeAPI_POSTRequest never
\* gives) and the device's cache entry afterwards
async_GoveeAPI_GetDeviceState(snap, result) ==
    IF result.none THEN [ret |-> "False", snap |-> snap]
    ELSE [ret |-> "True",
          snap |-> Snapshot(IF result.json.hasPayload THEN result.json.caps ELSE <<>>)]

\* the echo of a control response body: {capability: {type, instance, value}},
\* any of the fields possibly missing
Echo(hasCap, hasType, hasInstance, hasValue, cmd) ==
    [hasCap |-> hasCap, hasType |-> hasType, hasInstance |-> hasInstance,
     hasValue |-> hasValue, type |-> cmd.type, instance |-> cmd.instance,
     value |-> cmd.value]

\* `cap['type'] == new_cap['type'] and cap['instance'] == new_cap['instance']`
\* raises KeyError, before any entry is replaced, when the scan reaches the
\* lookup of a field the echo lacks
RaisesKeyError(capabilities, echo) ==
    IF ~echo.hasType THEN capabilities # <<>>
    ELSE IF ~echo.hasInstance
         THEN \E k \in 1..Len(capabilities) : capabilities[k].type = echo.type
         ELSE FALSE

\* the match written with `or`: the first entry sharing the type or the instance
RECURSIVE UpdateMatching_TypeOrInstance(_, _)
UpdateMatching_TypeOrInstance(capabilities, new_cap) ==
    IF capabilities = <<>> THEN <<>>
    ELSE LET cap == Head(capabilities) IN
         IF cap.type = new_cap.type \/ cap.instance = new_cap.instance
         THEN <<new_cap>> \o Tail(capabilities)
         ELSE <<cap>> \o UpdateMatching_TypeOrInstance(Tail(capabilities), new_cap)

\* the loop of lines 239-243: the first entry with new_cap's (type, instance)
\* is replaced by new_cap, nothing is appended
RECURSIVE UpdateMatching(_, _)
UpdateMatching(capabilities, new_cap) ==
    IF capabilities = <<>> THEN <<>>
    ELSE LET cap == Head(capabilities) IN
         IF cap.type = new_cap.type /\ cap.instance = new_cap.instance
         THEN <<new_cap>> \o Tail(capabilities)
         ELSE <<cap>> \o UpdateMatching(Tail(capabilities), new_cap)

\* result = [ret, snap]: the return value and the device's cache entry afterwards
async_GoveeAPI_ControlDevice(snap, result) ==
    IF result.none THEN [ret |-> FALSE, snap |-> snap]
    ELSE IF ~result.json.hasCap THEN [ret |-> FALSE, snap |-> snap]
    ELSE LET echo == result.json
             new_cap == [type |-> echo.type, instance |-> echo.instance,
                         state |-> IF echo.hasValue THEN ValueState(echo.value)
                                   ELSE AbsentState]
         IN IF RaisesKeyError(snap.caps, echo)
            THEN [ret |-> FALSE, snap |-> snap]
            ELSE IF ~echo.hasType \/ ~echo.hasInstance
            THEN [ret |-> TRUE, snap |-> snap]
            ELSE [ret |-> TRUE,
                  snap |-> [snap EXCEPT !.caps = UpdateMatching(snap.caps, new_cap)]]

(* ------------------- entities.py: GoveeAPIUpdateCoordinator ------------ *)
\* entities.py names asyncio in an except clause without importing it
AsyncioImported == FALSE

\* what the try block of _async_update_data raises: "none" when it returns
UpdateRaises(result, timedOut) ==
    IF timedOut THEN "TimeoutError"
    ELSE IF result \in {"429", "401"} THEN "ConfigEntryAuthFailed"
    ELSE IF result = "False" THEN "UpdateFailed"
    ELSE "none"

\* the cycle ending every failure with the terminal authentication failure
async_update_data_Terminal(result, timedOut) ==
    IF UpdateRaises(result, timedOut) = "none" THEN "ok" ELSE "ConfigEntryAuthFailed"

\* the outcome of one poll cycle: "ok", or the exception that leaves the method;
\* matching any raised exception first evaluates `asyncio.TimeoutError`
async_update_data(result, timedOut) ==
    LET raised == UpdateRaises(result, timedOut) IN
    IF raised = "none" THEN "ok"
    ELSE IF ~AsyncioImported THEN "NameError"
    ELSE IF raised = "TimeoutError" THEN "UpdateFailed"
    ELSE raised

(* ------------------------------- state --------------------------------- *)
VARIABLES
    api_devices,   \* entry_data[CONF_DEVICES]: the listed devices, in order
    coordinators,  \* entry_data[CONF_COORDINATORS]: devices with a coordinator
    cache,         \* entry_data[CONF_STATE]: device -> cached snapshot
    vendor,        \* the capability list the vendor cloud holds per device
    poll,          \* per device: the coordinator's state request in flight
    lastPoll,      \* per device: outcome of the last poll cycle
    ctl,           \* per device: the control request in flight
    lastCtl,       \* per device: the last control call's command and return value
    requests,      \* the device/control POSTs issued by the light, in order
    light,         \* GoveeLifeLight of d1: its turn-on call in progress
    setup,         \* async_setup_entry: its position and outcome
    client,        \* the API client: entry_data[CONF_API_COUNT] and its last call
    hook,          \* handle_webhook: the bodies delivered and the events fired
    entity         \* the entity or service under call: its attributes and its last call

vars == <<api_devices, coordinators, cache, vendor, poll, lastPoll, ctl, lastCtl,
          requests, light, setup, client, hook, entity>>

NoCmd == [type |-> "", instance |-> "", value |-> None]
Command(key, v) == [type |-> key[1], instance |-> key[2], value |-> v]
Commands == {Command(key, v) : key \in CapKeys, v \in Values}

IdlePoll == [pc |-> "idle", resp |-> [status |-> 0, parsable |-> TRUE, body |-> NoBody]]
NoEcho == Echo(FALSE, FALSE, FALSE, FALSE, NoCmd)
IdleCtl == [pc |-> "idle", cmd |-> NoCmd,
            resp |-> [status |-> 0, parsable |-> TRUE, body |-> NoEcho]]

\* what the state endpoint can answer for a device whose capability list is caps
StateResponses(caps) ==
    HttpFailures(NoBody)
        \cup {[status |-> 200, parsable |-> TRUE, body |-> NoBody],
              [status |-> 200, parsable |-> TRUE,
               body |-> [hasPayload |-> TRUE, caps |-> caps]]}

\* what the control endpoint can answer to cmd once the command is applied
EchoResponses(cmd) ==
    {[status |-> 200, parsable |-> TRUE, body |-> e] :
        e \in {Echo(TRUE, TRUE, TRUE, TRUE, cmd), Echo(TRUE, TRUE, TRUE, FALSE, cmd),
               Echo(TRUE, TRUE, FALSE, TRUE, cmd), Echo(TRUE, FALSE, TRUE, TRUE, cmd),
               Echo(FALSE, FALSE, FALSE, FALSE, cmd)}}

\* the vendor applies a command to the capability it holds, if it holds it
VendorApply(caps, cmd) ==
    [k \in 1..Len(caps) |->
        IF caps[k].type = cmd.type /\ caps[k].instance = cmd.instance
        THEN [caps[k] EXCEPT !.state = ValueState(cmd.value)]
        ELSE caps[k]]

(* -------------------------- poll coordinator --------------------------- *)
\* hass.data[DOMAIN][entry_id] exists: async_setup_entry creates it and a
\* successful async_unload_entry pops it.  Without it the lookup after the
\* await in async_GoveeAPI_GetDeviceState (line 186) and
\* async_GoveeAPI_ControlDevice (line 226) raises KeyError, which the
\* routine catches: it returns False and touches nothing
EntryLoaded == setup.pc # "unloaded"

\* the scheduler starts a refresh: _async_update_data up to the POST's await
PollStart(d) ==
    /\ d \in coordinators
    /\ poll[d].pc = "idle"
    /\ lastPoll[d] # "ConfigEntryAuthFailed"
    /\ poll' = [poll EXCEPT ![d].pc = "sent"]
    /\ UNCHANGED <<api_devices, coordinators, cache, vendor, lastPoll, ctl, lastCtl,
                   requests, light, setup, client, hook, entity>>

\* the vendor reads the device's state and answers (or the request fails)
VendorAnswerState(d) ==
    /\ poll[d].pc = "sent"
    /\ \E r \in StateResponses(vendor[d]) :
           poll' = [poll EXCEPT ![d].pc = "answered", ![d].resp = r]
    /\ UNCHANGED <<api_devices, coordinators, cache, vendor, lastPoll, ctl, lastCtl,
                   requests, light, setup, client, hook, entity>>

\* the response reaches async_GoveeAPI_GetDeviceState, then _async_update_data
PollReturn(d) ==
    /\ poll[d].pc = "answered"
    /\ LET got == IF EntryLoaded
                  THEN async_GoveeAPI_GetDeviceState(
                           cache[d], async_GoveeAPI_POSTRequest(poll[d].resp))
                  ELSE [ret |-> "False", snap |-> cache[d]]
       IN /\ cache' = [cache EXCEPT ![d] = got.snap]
          /\ lastPoll' = [lastPoll EXCEPT ![d] = async_update_data(got.ret, FALSE)]
    /\ poll' = [poll EXCEPT ![d] = IdlePoll]
    /\ UNCHANGED <<api_devices, coordinators, vendor, ctl, lastCtl, requests, light, setup, client, hook,
                   entity>>

\* async_timeout expires while the request is awaited: the await is cancelled
PollTimeout(d) ==
    /\ poll[d].pc \in {"sent", "answered"}
    /\ lastPoll' = [lastPoll EXCEPT ![d] = async_update_data("False", TRUE)]
    /\ poll' = [poll EXCEPT ![d] = IdlePoll]
    /\ UNCHANGED <<api_devices, coordinators, cache, vendor, ctl, lastCtl,
                   requests, light, setup, client, hook, entity>>

(* --------------------------- control pipeline -------------------------- *)
\* async_GoveeAPI_ControlDevice from its call up to the POST's await
ControlSend(d, cmd) ==
    /\ d \in Range(api_devices)
    /\ ctl[d].pc = "idle"
    /\ ctl' = [ctl EXCEPT ![d].pc = "sent", ![d].cmd = cmd]
    /\ UNCHANGED <<api_devices, coordinators, cache, vendor, poll, lastPoll, lastCtl>>

\* the vendor applies the command and echoes it, or the request fails; a
\* transport failure (status 0) may lose the request or only its response
VendorAnswerControl(d) ==
    /\ ctl[d].pc = "sent"
    /\ \E r \in EchoResponses(ctl[d].cmd) \cup HttpFailures(NoEcho), lost \in BOOLEAN :
           LET applied == r.status = 200 \/ (r.status = 0 /\ ~lost) IN
           /\ r.status # 0 => ~lost
           /\ ctl' = [ctl EXCEPT ![d].pc = "answered", ![d].resp = r]
           /\ vendor' = [vendor EXCEPT ![d] =
                            IF applied THEN VendorApply(@, ctl[d].cmd) ELSE @]
    /\ UNCHANGED <<api_devices, coordinators, cache, poll, lastPoll, lastCtl,
                   requests, light, setup, client, hook, entity>>

\* the response reaches async_GoveeAPI_ControlDevice, which patches the cache
\* and returns to its caller
ControlReturn(d) ==
    /\ ctl[d].pc = "answered"
    /\ LET got == IF EntryLoaded
                  THEN async_GoveeAPI_ControlDevice(
                           cache[d], async_GoveeAPI_POSTRequest(ctl[d].resp))
                  ELSE [ret |-> FALSE, snap |-> cache[d]]
       IN /\ cache' = [cache EXCEPT ![d] = got.snap]
          /\ lastCtl' = [lastCtl EXCEPT ![d] = [ret |-> got.ret, cmd |-> ctl[d].cmd]]
    /\ ctl' = [ctl EXCEPT ![d] = IdleCtl]
    /\ UNCHANGED <<api_devices, coordinators, vendor, poll, lastPoll>>

\* a service or an entity action made of one command (services.py
\* _execute_device_command, the fan and humidifier setters, async_turn_off)
\* calls async_GoveeAPI_ControlDevice and gets its result
ControlCall(d, cmd) ==
    /\ ControlSend(d, cmd)
    /\ UNCHANGED <<requests, light, setup, client, hook, entity>>

ControlCallReturn(d) ==
    /\ ControlReturn(d)
    /\ UNCHANGED <<requests, light, setup, client, hook, entity>>

(* ------------------------ light.py: GoveeLifeLight --------------------- *)
COLOR_SETTING == "devices.capabilities.color_setting"
DYNAMIC_SCENE == "devices.capabilities.dynamic_scene"
MUSIC_SETTING == "devices.capabilities.music_setting"

ColorTempKey == <<COLOR_SETTING, "colorTemperatureK">>
ColorRgbKey == <<COLOR_SETTING, "colorRgb">>
LightSceneKey == <<DYNAMIC_SCENE, "lightScene">>
MusicModeKey == <<MUSIC_SETTING, "musicMode">>

\* the light entity of the model: d1, whose capability list has on_off with
\* the options {on: 1, off: 0} and a brightness range [1, 100]
LightDevice == "d1"
state_mapping_set == [on |-> 1, off |-> 0]
brightness_scale == <<1, 100>>

\* _set_default_scenes (its first row; every row has the same shape) and the
\* music modes of a capability list without music_setting
scene_modes == [name \in {"Sunrise"} |-> [id |-> 196, paramId |-> 177]]
music_modes == [name \in {} |-> [musicMode |-> 0, sensitivity |-> 50, autoColor |-> 1]]
MusicEffects == {"Music: Rhythm"}

\* the conversion truncating instead of rounding
brightness_to_value_Truncating(scale, brightness) ==
    scale[1] + (((scale[2] - scale[1]) * brightness) \div 255)

\* round(((max_value - min_value) * (brightness / 255)) + min_value); the
\* fraction is never exactly one half (510 divides no odd multiple of 255's
\* double), so rounding to nearest is floor(x + 1/2)
brightness_to_value(scale, brightness) ==
    scale[1] + ((2 * (scale[2] - scale[1]) * brightness + 255) \div 510)

is_on(state, d) ==
    GoveeAPI_GetCachedStateValue(state, d, ON_OFF, "powerSwitch") = state_mapping_set.on

\* the keyword arguments of a turn-on call; None, <<>> and "" stand for an
\* argument that is not passed
NoRgb == <<>>
NoEffect == ""
Brightnesses == {None, 1, 128, 255}
ColorTemps == {None, 2700}
RgbColors == {NoRgb, <<255, 128, 0>>}
Effects == {NoEffect, "Sunrise", "Music: Rhythm"}
Kwargs == [brightness : Brightnesses, color_temp_kelvin : ColorTemps,
           rgb_color : RgbColors, effect : Effects]
NoKwargs == [brightness |-> None, color_temp_kelvin |-> None,
             rgb_color |-> NoRgb, effect |-> NoEffect]

BrightnessCommands(kwargs) ==
    IF kwargs.brightness # None
    THEN <<Command(BrightnessKey, brightness_to_value(brightness_scale, kwargs.brightness))>>
    ELSE <<>>

ColorTempCommands(kwargs) ==
    IF kwargs.color_temp_kelvin # None
    THEN <<Command(ColorTempKey, kwargs.color_temp_kelvin)>>
    ELSE <<>>

RgbCommands(kwargs) ==
    IF kwargs.rgb_color # NoRgb
    THEN LET rgb == kwargs.rgb_color
         IN <<Command(ColorRgbKey, (rgb[1] * 65536) + (rgb[2] * 256) + rgb[3])>>
    ELSE <<>>

EffectCommands(kwargs) ==
    IF kwargs.effect = NoEffect THEN <<>>
    ELSE IF kwargs.effect \in MusicEffects /\ kwargs.effect \in DOMAIN music_modes
    THEN <<Command(MusicModeKey, music_modes[kwargs.effect])>>
    ELSE IF kwargs.effect \in DOMAIN scene_modes
    THEN <<Command(LightSceneKey, scene_modes[kwargs.effect])>>
    ELSE <<>>

\* the command list with the power command appended on every call
TurnOnCommands_AlwaysPower(state, d, kwargs) ==
    Append(BrightnessCommands(kwargs) \o ColorTempCommands(kwargs)
               \o RgbCommands(kwargs) \o EffectCommands(kwargs),
           Command(PowerKey, state_mapping_set.on))

\* the command list async_turn_on builds: power on comes last, and only when
\* the light is not on or nothing else is commanded
TurnOnCommands(state, d, kwargs) ==
    LET commands == BrightnessCommands(kwargs) \o ColorTempCommands(kwargs)
                        \o RgbCommands(kwargs) \o EffectCommands(kwargs)
    IN IF ~is_on(state, d) \/ commands = <<>>
       THEN Append(commands, Command(PowerKey, state_mapping_set.on))
       ELSE commands

\* the payload of one device/control POST: a fresh requestId (uuid4, here the
\* request's sequence number) and the commands it carries (payload.capability
\* is one command)
ControlPayload(n, command) == [requestId |-> n, capability |-> <<command>>]

IdleLight == [pc |-> "idle", kwargs |-> NoKwargs, was_on |-> FALSE,
              commands |-> <<>>, next |-> 0, echoed |-> <<>>]

\* async_turn_on from its call to the await of the first command's POST
async_turn_on(d, kwargs) ==
    /\ d = LightDevice /\ d \in coordinators
    /\ light.pc = "idle"
    /\ LET commands == TurnOnCommands(cache, d, kwargs) IN
       /\ ControlSend(d, commands[1])
       /\ requests' = <<ControlPayload(1, commands[1])>>
       /\ light' = [pc |-> "awaiting", kwargs |-> kwargs, was_on |-> is_on(cache, d),
                    commands |-> commands, next |-> 1, echoed |-> <<>>]
    /\ UNCHANGED <<setup, client, hook, entity>>

\* the awaited control call returns; the loop then awaits asyncio.sleep(0.1).
\* echoed records whether the response carried a full echo
TurnOnControlReturn(d) ==
    /\ d = LightDevice /\ light.pc = "awaiting"
    /\ ControlReturn(d)
    /\ light' = [light EXCEPT !.pc = "sleeping",
                     !.echoed = Append(@, ~NullResponse(ctl[d].resp)
                                            /\ ctl[d].resp.body.hasCap
                                            /\ ctl[d].resp.body.hasType
                                            /\ ctl[d].resp.body.hasInstance
                                            /\ ctl[d].resp.body.hasValue)]
    /\ UNCHANGED <<requests, setup, client, hook, entity>>

\* the sleep ends and the loop sends the next command
TurnOnNextCommand(d) ==
    /\ d = LightDevice /\ light.pc = "sleeping"
    /\ light.next < Len(light.commands)
    /\ ControlSend(d, light.commands[light.next + 1])
    /\ requests' = Append(requests, ControlPayload(Len(requests) + 1,
                                                   light.commands[light.next + 1]))
    /\ light' = [light EXCEPT !.pc = "awaiting", !.next = @ + 1]
    /\ UNCHANGED <<setup, client, hook, entity>>

\* the sleep after the last command ends: async_turn_on returns
TurnOnReturn(d) ==
    /\ d = LightDevice /\ light.pc = "sleeping"
    /\ light.next = Len(light.commands)
    /\ light' = [light EXCEPT !.pc = "done"]
    /\ UNCHANGED <<api_devices, coordinators, cache, vendor, poll, lastPoll, ctl,
                   lastCtl, requests, setup, client, hook, entity>>

(* --------------------- __init__.py: async_setup_entry ------------------ *)
\* what GET user/devices can answer: a failure, a body without `data`, or a
\* device listing
NoListing == [hasData |-> FALSE, data |-> <<>>]
Listings == {<<>>, <<"d1">>, <<"d1", "d2">>, <<"d2", "d1">>}
ListingResponses ==
    HttpFailures(NoListing)
        \cup {[status |-> 200, parsable |-> TRUE, body |-> NoListing]}
        \cup {[status |-> 200, parsable |-> TRUE,
               body |-> [hasData |-> TRUE, data |-> l]] : l \in Listings}

\* response.json().get('data'): None as well when the body has no `data`
async_GoveeAPI_GETRequest(response) ==
    IF response.status = 0 THEN NoneResult(response.body)
    ELSE IF response.status = 429 THEN NoneResult(response.body)
    ELSE IF response.status = 401 THEN NoneResult(response.body)
    ELSE IF response.status # 200 THEN NoneResult(response.body)
    ELSE IF ~response.parsable THEN NoneResult(response.body)
    ELSE [none |-> ~response.body.hasData, json |-> response.body.data]

\* the listed device configurations: d1 is a light (devices.types.light), d2
\* a humidifier whose capabilities include a devices.capabilities.event
HasEventCapability(d) == d = "d2"
IsLight(d) == d = LightDevice

\* listing: the status of the listing answer (None before it arrived);
\* failed: the (device, step) pairs whose request failed during this setup
SetupCompleted(n) ==
    [pc |-> "done", i |-> n + 1, result |-> "True", unauthorized |-> FALSE,
     listing |-> 200, failed |-> {}]
SetupStarting ==
    [pc |-> "listing", i |-> 1, result |-> "", unauthorized |-> FALSE,
     listing |-> None, failed |-> {}]

\* the loop giving up at the first device that fails
AfterDevice_StopAtFirst(i, ok) ==
    IF i < Len(api_devices) /\ ok THEN [pc |-> "initial_state", i |-> i + 1]
    ELSE [pc |-> "finishing", i |-> i + 1]

\* the position after device i is dealt with: the next device, or the end of
\* the loop; ok tells whether the device got through (line 170 continues
\* with the next device either way)
AfterDevice(i, ok) ==
    IF i < Len(api_devices) THEN [pc |-> "initial_state", i |-> i + 1]
    ELSE [pc |-> "finishing", i |-> i + 1]

\* the position after the coordinator of device i is stored (line 110) and
\* after its event subscription (line 141)
AfterStore(i) ==
    IF HasEventCapability(api_devices[i]) THEN [pc |-> "subscribe", i |-> i]
    ELSE IF IsLight(api_devices[i]) THEN [pc |-> "scenes", i |-> i]
    ELSE AfterDevice(i, TRUE)
AfterSubscribe(i) ==
    IF IsLight(api_devices[i]) THEN [pc |-> "scenes", i |-> i]
    ELSE AfterDevice(i, TRUE)

\* what device/event/subscribe and device/scenes can answer
NoAnswer == [hasData |-> FALSE, data |-> <<>>]
SubscribeResponses ==
    HttpFailures(NoAnswer) \cup {[status |-> 200, parsable |-> TRUE, body |-> NoAnswer]}

\* an entry of device_cfg['capabilities'] or of the scene answer: its type,
\* its instance and the options of its parameters (name and value)
ConfigCap(type, instance, options) ==
    [type |-> type, instance |-> instance, options |-> options]
SceneOption(name, id, paramId) ==
    [name |-> name, value |-> [id |-> id, paramId |-> paramId]]

\* the listed capability list has at most MaxListed entries, a scene answer
\* at most MaxFetched
MaxListed == 3
MaxFetched == 2

\* the entries a listing gives a light, and the entries device/scenes
\* answers with: scene capabilities with their options, and one entry of
\* another type
ListedCaps ==
    {ConfigCap(ON_OFF, "powerSwitch", <<>>),
     ConfigCap(DYNAMIC_SCENE, "lightScene", <<>>),
     ConfigCap(DYNAMIC_SCENE, "diyScene", <<>>),
     ConfigCap(MUSIC_SETTING, "musicMode", <<[name |-> "Rhythm", value |-> 1]>>)}
FetchedCaps ==
    {ConfigCap(DYNAMIC_SCENE, "lightScene", <<SceneOption("Party", 1, 2)>>),
     ConfigCap(DYNAMIC_SCENE, "lightScene",
               <<SceneOption("Party", 1, 2), SceneOption("Sunrise", 3, 4)>>),
     ConfigCap(DYNAMIC_SCENE, "diyScene", <<SceneOption("Mine", 5, 6)>>),
     ConfigCap(ON_OFF, "powerSwitch", <<>>)}

RECURSIVE ListsOver(_, _)
ListsOver(S, n) ==
    IF n = 0 THEN {<<>>}
    ELSE LET shorter == ListsOver(S, n - 1)
         IN shorter \cup {Append(l, c) : l \in shorter, c \in S}

\* the vendor keeps (type, instance) unique within one list
ListedLists == {l \in ListsOver(ListedCaps, MaxListed) : UniqueKeys(l)}
FetchedLists == {l \in ListsOver(FetchedCaps, MaxFetched) : UniqueKeys(l)}

\* the `data` of a scene answer: with or without a `capabilities` member
SceneData ==
    {[hasCapabilities |-> FALSE, capabilities |-> <<>>]}
        \cup {[hasCapabilities |-> TRUE, capabilities |-> l] : l \in FetchedLists}
SceneResponses ==
    HttpFailures(NoAnswer)
        \cup {[status |-> 200, parsable |-> TRUE, body |-> NoAnswer]}
        \cup {[status |-> 200, parsable |-> TRUE,
               body |-> [hasData |-> TRUE, data |-> data]] : data \in SceneData}

\* lines 156-164 with every scene appended, none replaced
ReplaceOrAppend_AlwaysAppend(device_capabilities, scene_cap) ==
    Append(device_capabilities, scene_cap)

\* lines 156-164: the first entry of the same (dynamic_scene, instance) is
\* replaced by the fetched one; without such an entry it is appended
ReplaceOrAppend(device_capabilities, scene_cap) ==
    LET found == {i \in 1..Len(device_capabilities) :
                     /\ device_capabilities[i].type = DYNAMIC_SCENE
                     /\ device_capabilities[i].instance = scene_cap.instance}
    IN IF found = {} THEN Append(device_capabilities, scene_cap)
       ELSE LET i == CHOOSE m \in found : \A n \in found : m <= n
            IN [device_capabilities EXCEPT ![i] = scene_cap]

\* lines 153-164: the loop over scenes['capabilities']; an entry of another
\* type is passed over
RECURSIVE MergeSceneCaps(_, _)
MergeSceneCaps(device_capabilities, scene_caps) ==
    IF scene_caps = <<>> THEN device_capabilities
    ELSE LET scene_cap == Head(scene_caps)
         IN MergeSceneCaps(IF scene_cap.type = DYNAMIC_SCENE
                           THEN ReplaceOrAppend(device_capabilities, scene_cap)
                           ELSE device_capabilities,
                           Tail(scene_caps))

\* lines 151-165: `if scenes and 'capabilities' in scenes`; scenes is the
\* result of the GET (None, or the `data` of the answer)
MergeScenes(device_capabilities, scenes) ==
    IF scenes.none THEN device_capabilities
    ELSE IF ~scenes.json.hasCapabilities THEN device_capabilities
    ELSE MergeSceneCaps(device_capabilities, scenes.json.capabilities)

\* the listed configuration of the light under observation: its capability
\* list as listed and as it is now, and the result of its scene fetch once
\* the fetch is over
LightConfig(listed) ==
    [op |-> "config", listed |-> listed, capabilities |-> listed,
     merged |-> FALSE, scenes |-> NoneResult(NoAnswer)]

\* lines 73-83: the device listing; a null result raises ConfigEntryAuthFailed,
\* which leaves async_setup_entry as ConfigEntryNotReady
SetupListDevices ==
    /\ setup.pc = "listing"
    /\ \E r \in ListingResponses :
           LET result == async_GoveeAPI_GETRequest(r) IN
           IF result.none
           THEN /\ setup' = [setup EXCEPT !.pc = "done", !.result = "ConfigEntryNotReady",
                                            !.listing = r.status]
                /\ UNCHANGED api_devices
           ELSE /\ api_devices' = result.json
                /\ setup' = [setup EXCEPT
                                !.listing = r.status,
                                !.pc = IF result.json = <<>> THEN "finishing"
                                       ELSE "initial_state"]
    /\ UNCHANGED <<coordinators, cache, vendor, poll, lastPoll, ctl, lastCtl,
                   requests, light, client, hook, entity>>

\* line 97: the initial state fetch of device i; its return value is dropped.
\* unauthorized records that the state endpoint answered 401 during this setup
SetupInitialState ==
    /\ setup.pc = "initial_state"
    /\ LET d == api_devices[setup.i] IN
       \E r \in StateResponses(vendor[d]) :
           LET got == async_GoveeAPI_GetDeviceState(cache[d], async_GoveeAPI_POSTRequest(r))
           IN /\ cache' = [cache EXCEPT ![d] = got.snap]
              /\ setup' = [setup EXCEPT !.pc = "first_refresh",
                               !.unauthorized = @ \/ r.status = 401,
                               !.failed = IF got.ret = "False"
                                          THEN @ \cup {<<d, "initial_state">>} ELSE @]
    /\ UNCHANGED <<api_devices, coordinators, vendor, poll, lastPoll, ctl, lastCtl,
                   requests, light, client, hook, entity>>

\* lines 100-110: the coordinator is created whatever the initial fetch
\* returned, and refreshed.  An exception leaving _async_update_data makes
\* async_config_entry_first_refresh raise, line 170 catches it and the loop
\* continues with the next device; otherwise the coordinator is stored
SetupFirstRefresh ==
    /\ setup.pc = "first_refresh"
    /\ LET d == api_devices[setup.i] IN
       \E r \in StateResponses(vendor[d]), timedOut \in BOOLEAN :
           LET got == IF timedOut THEN [ret |-> "False", snap |-> cache[d]]
                      ELSE async_GoveeAPI_GetDeviceState(
                               cache[d], async_GoveeAPI_POSTRequest(r))
               outcome == async_update_data(got.ret, timedOut)
               after == IF outcome = "ok" THEN AfterStore(setup.i)
                        ELSE AfterDevice(setup.i, FALSE)
           IN /\ cache' = [cache EXCEPT ![d] = got.snap]
              /\ lastPoll' = [lastPoll EXCEPT ![d] = outcome]
              /\ coordinators' = IF outcome = "ok" THEN coordinators \cup {d}
                                 ELSE coordinators
              /\ setup' = [setup EXCEPT !.pc = after.pc, !.i = after.i,
                               !.unauthorized = @ \/ (~timedOut /\ r.status = 401),
                               !.failed = IF outcome # "ok"
                                          THEN @ \cup {<<d, "first_refresh">>} ELSE @]
    /\ UNCHANGED <<api_devices, vendor, poll, ctl, lastCtl, requests, light, client, hook, entity>>

\* lines 113-141: the event subscription of a device with an event
\* capability; a null result is not reported and the loop goes on
SetupSubscribe ==
    /\ setup.pc = "subscribe"
    /\ LET d == api_devices[setup.i]
           after == AfterSubscribe(setup.i)
       IN \E r \in SubscribeResponses :
              setup' = [setup EXCEPT !.pc = after.pc, !.i = after.i,
                            !.failed = IF async_GoveeAPI_POSTRequest(r).none
                                       THEN @ \cup {<<d, "subscribe">>} ELSE @]
    /\ UNCHANGED <<api_devices, coordinators, cache, vendor, poll, lastPoll, ctl,
                   lastCtl, requests, light, client, hook, entity>>

\* lines 144-168: the scene fetch of a light; the scenes are merged into the
\* listed configuration (device_cfg), which the model holds for the light
\* under observation
SetupScenes ==
    /\ setup.pc = "scenes"
    /\ LET d == api_devices[setup.i]
           after == AfterDevice(setup.i, TRUE)
       IN \E r \in SceneResponses :
              LET scenes == async_GoveeAPI_GETRequest(r)
              IN /\ setup' = [setup EXCEPT !.pc = after.pc, !.i = after.i,
                                  !.failed = IF scenes.none
                                             THEN @ \cup {<<d, "scenes">>} ELSE @]
                 /\ entity' = IF entity.op = "config"
                              THEN [entity EXCEPT
                                       !.capabilities = MergeScenes(@, scenes),
                                       !.merged = TRUE, !.scenes = scenes]
                              ELSE entity
    /\ UNCHANGED <<api_devices, coordinators, cache, vendor, poll, lastPoll, ctl,
                   lastCtl, requests, light, client, hook>>

\* lines 180-220: webhook, update listener, platforms, services; a framework
\* call that raises in one of the try blocks makes setup return False
SetupFinish ==
    /\ setup.pc = "finishing"
    /\ \E raised \in BOOLEAN :
           setup' = [setup EXCEPT !.pc = "done",
                         !.result = IF raised THEN "False" ELSE "True"]
    /\ UNCHANGED <<api_devices, coordinators, cache, vendor, poll, lastPoll, ctl,
                   lastCtl, requests, light, client, hook, entity>>

(* ----------------------- utils.py: request counter --------------------- *)
\* a day has at most MaxCalls counted calls, the calendar reaches day MaxDay
MaxCalls == 3
MaxDay == 2

\* utils.py calls date.today() and imports no `date`
DateImported == FALSE

\* entry_data[CONF_API_COUNT]: nothing stored until a call stores it
NoCount == [present |-> FALSE, count |-> 0, date |-> None]

\* lines 47-64 for one call on day `today`: the default {count: 0, date:
\* today} when nothing is stored, count + 1 on the stored date, 1 on another
\* date (the stored date stays).  The NameError of date.today() is caught
\* before anything is stored
async_GooveAPI_CountRequests(api_count, today) ==
    IF ~DateImported THEN api_count
    ELSE LET v == IF api_count.present THEN api_count
                  ELSE [present |-> TRUE, count |-> 0, date |-> today]
         IN IF v.date = today THEN [v EXCEPT !.count = @ + 1]
            ELSE [v EXCEPT !.count = 1]

\* what a call can meet: a transport exception (status 0), the statuses the
\* code names, another 2xx and another non-2xx status, a body response.json()
\* rejects, a JSON body with or without a `data` member
Statuses == {0, 200, 201, 401, 429, 500}
JsonBodies == {NoAnswer} \cup {[hasData |-> TRUE, data |-> l] : l \in {<<>>, <<"d1">>}}
ClientResponses ==
    {[status |-> st, parsable |-> pa, body |-> b] :
        st \in Statuses, pa \in BOOLEAN, b \in JsonBodies}

\* the call through the client, by method
ClientRequest(method, response) ==
    IF method = "GET" THEN async_GoveeAPI_GETRequest(response)
    ELSE async_GoveeAPI_POSTRequest(response)

\* api_count: the stored counter; today: the calendar day; calls: the calls
\* made on that day; pc, method, response, result: the call in progress or
\* the last one
IdleClient ==
    [api_count |-> NoCount, today |-> 0, calls |-> 0, pc |-> "idle", method |-> "",
     response |-> [status |-> 0, parsable |-> TRUE, body |-> NoAnswer],
     result |-> NoneResult(NoAnswer)]

\* lines 68-86 and 110-135: the call is counted, then the request goes out
ClientSend(method) ==
    /\ client.pc = "idle" /\ client.calls < MaxCalls
    /\ client' = [client EXCEPT
                     !.pc = "sent", !.method = method, !.calls = @ + 1,
                     !.api_count = async_GooveAPI_CountRequests(@, client.today)]
    /\ UNCHANGED <<api_devices, coordinators, cache, vendor, poll, lastPoll, ctl,
                   lastCtl, requests, light, setup, hook, entity>>

\* lines 88-106 and 137-154: the answer is classified; every exception is
\* caught inside the function
ClientReceive(response) ==
    /\ client.pc = "sent"
    /\ client' = [client EXCEPT
                     !.pc = "idle", !.response = response,
                     !.result = ClientRequest(client.method, response)]
    /\ UNCHANGED <<api_devices, coordinators, cache, vendor, poll, lastPoll, ctl,
                   lastCtl, requests, light, setup, hook, entity>>

\* midnight: date.today() changes
NextDay ==
    /\ client.today < MaxDay
    /\ client' = [client EXCEPT !.today = @ + 1, !.calls = 0]
    /\ UNCHANGED <<api_devices, coordinators, cache, vendor, poll, lastPoll, ctl,
                   lastCtl, requests, light, setup, hook, entity>>

(* ----------------------- __init__.py: handle_webhook ------------------- *)
\* the webhook is delivered at most MaxDeliveries times
MaxDeliveries == 3

EVENT == "devices.capabilities.event"
LackWaterKey == <<EVENT, "lackWaterEvent">>

\* the capability lists an event carries
EventLists == {<<Cap(LackWaterKey, ValueState(v))>> : v \in Values}

\* a request body: one request.json() rejects, {} , a JSON object without
\* `event`, or {event: e} where e is no object (isDict = FALSE) or an object
\* with or without `device` ("" stands for a missing or empty identifier) and
\* with or without `capabilities`; d3 is a device this instance does not know
EventDevices == Devices \cup {"d3", ""}
NoEvent == [isDict |-> FALSE, device |-> "", hasCaps |-> FALSE, caps |-> <<>>]
Events ==
    {NoEvent}
        \cup {[isDict |-> TRUE, device |-> d, hasCaps |-> FALSE, caps |-> <<>>] :
                 d \in EventDevices}
        \cup {[isDict |-> TRUE, device |-> d, hasCaps |-> TRUE, caps |-> l] :
                 d \in EventDevices, l \in EventLists}
Bodies ==
    {[kind |-> k, event |-> NoEvent] : k \in {"unparsable", "empty", "noevent"}}
        \cup {[kind |-> "event", event |-> e] : e \in Events}
NoBodyYet == [kind |-> "", event |-> NoEvent]

\* the update appending the event's capabilities to the cached list
EventUpdate_Appending(snap, event) ==
    IF snap.present /\ event.hasCaps THEN Snapshot(snap.caps \o event.caps) ELSE snap

\* the update giving an uncached device an entry
EventUpdate_Creating(snap, event) ==
    IF event.hasCaps THEN Snapshot(event.caps) ELSE snap

\* lines 240-243, dict.update on the cached payload of the event's device:
\* the event's `capabilities` replace the cached list; the members the
\* entities never read (sku, deviceName) are outside the model
EventUpdate(snap, event) ==
    IF snap.present /\ event.hasCaps THEN Snapshot(event.caps) ELSE snap

\* the handler without the `if device` of line 235
handle_webhook_NoDeviceCheck(state, body) ==
    IF body.kind # "event" \/ ~body.event.isDict THEN [fired |-> 0, data |-> NoEvent, state |-> state]
    ELSE [fired |-> 1, data |-> body.event,
          state |-> [d \in Devices |->
                        IF d = body.event.device THEN EventUpdate(state[d], body.event)
                        ELSE state[d]]]

\* the handler updating every cached device
handle_webhook_AllDevices(state, body) ==
    IF body.kind # "event" \/ ~body.event.isDict \/ body.event.device = ""
    THEN [fired |-> 0, data |-> NoEvent, state |-> state]
    ELSE [fired |-> 1, data |-> body.event,
          state |-> [d \in Devices |-> EventUpdate(state[d], body.event)]]

\* lines 224-247: fired is the number of bus events fired, data the payload
\* handed to hass.bus.async_fire, state the State Cache afterwards; every
\* exception is caught and logged
handle_webhook(state, body) ==
    IF body.kind = "unparsable" THEN [fired |-> 0, data |-> NoEvent, state |-> state]
    ELSE IF body.kind = "empty" THEN [fired |-> 0, data |-> NoEvent, state |-> state]
    ELSE IF body.kind # "event" THEN [fired |-> 0, data |-> NoEvent, state |-> state]
    ELSE IF ~body.event.isDict THEN [fired |-> 0, data |-> NoEvent, state |-> state]
    ELSE IF body.event.device = "" THEN [fired |-> 0, data |-> NoEvent, state |-> state]
    ELSE [fired |-> 1, data |-> body.event,
          state |-> [d \in Devices |->
                        IF d = body.event.device THEN EventUpdate(state[d], body.event)
                        ELSE state[d]]]

\* body: the last body delivered, prev: the one before; fired: the bus events
\* fired so far, payload: the data of the last one; delivered: the
\* deliveries so far
NoHook ==
    [body |-> NoBodyYet, prev |-> NoBodyYet, fired |-> 0, payload |-> NoEvent,
     delivered |-> 0]

WebhookDeliver(body) ==
    /\ hook.delivered < MaxDeliveries
    /\ LET out == handle_webhook(cache, body) IN
       /\ cache' = out.state
       /\ hook' = [body |-> body, prev |-> hook.body,
                   fired |-> hook.fired + out.fired,
                   payload |-> IF out.fired = 1 THEN out.data ELSE hook.payload,
                   delivered |-> hook.delivered + 1]
    /\ UNCHANGED <<api_devices, coordinators, vendor, poll, lastPoll, ctl, lastCtl,
                   requests, light, setup, client, entity>>

(* ------------------------- entities and services ---------------------- *)
\* no entity or service call is under observation
NoEntity == [op |-> ""]

(* ------------------- light.py: the light's scene table ------------------ *)
\* lines 104-119: the rows (name, id, paramId) of _set_default_scenes
DefaultScenes ==
    <<<<"Sunrise", 196, 177>>, <<"Sunset", 197, 178>>, <<"Rainbow", 198, 179>>,
      <<"Sunset Glow", 199, 180>>, <<"Snow flake", 200, 181>>, <<"Aurora", 201, 182>>,
      <<"Forest", 202, 183>>, <<"Ocean", 203, 184>>, <<"Waves", 204, 185>>,
      <<"Fire", 205, 186>>, <<"Dark Clouds", 2457, 2565>>, <<"Morning", 730, 784>>,
      <<"Firefly", 2458, 2568>>, <<"Sky", 731, 785>>, <<"Flowing Light", 2459, 2569>>,
      <<"Flower Field", 732, 786>>, <<"Dense fog", 733, 787>>, <<"Lightning", 734, 788>>,
      <<"Falling Petals", 735, 789>>, <<"Feather", 736, 790>>, <<"Reading", 206, 187>>,
      <<"Night Light", 207, 188>>, <<"Fish tank", 208, 189>>, <<"Graffiti", 209, 190>>,
      <<"Cherry Blossom Festival", 210, 191>>, <<"Eating Dots", 2460, 2570>>,
      <<"Marshmallow", 2463, 2567>>, <<"Goldfish", 737, 791>>, <<"Geometry", 738, 792>>,
      <<"Kaleidoscope", 739, 793>>, <<"Rubik's Cube", 740, 794>>, <<"Train", 741, 795>>,
      <<"Kitchen Aromas", 742, 796>>, <<"Rings", 743, 797>>, <<"Dancing", 211, 192>>,
      <<"Breathe", 212, 193>>, <<"Gradient", 213, 194>>, <<"Cheerful", 214, 195>>,
      <<"Sweet", 215, 196>>, <<"Heartbeat", 2462, 2571>>, <<"Leisure", 744, 798>>,
      <<"Healing", 745, 799>>, <<"Dreamland", 746, 800>>>>

\* d[key] = value on a dict
SetKey(mapping, key, value) ==
    [k \in DOMAIN mapping \cup {key} |-> IF k = key THEN value ELSE mapping[k]]

\* `if name not in list: list.append(name)`
AppendIfAbsent(list, name) ==
    IF name \in Range(list) THEN list ELSE Append(list, name)

\* lines 121-125: every row is written to _scene_modes, its name joins
\* _attr_effect_list unless it is there
RECURSIVE SetScenes(_, _)
SetScenes(e, scenes) ==
    IF scenes = <<>> THEN e
    ELSE LET row == Head(scenes)
         IN SetScenes([e EXCEPT
                          !.scene_modes = SetKey(@, row[1], [id |-> row[2], paramId |-> row[3]]),
                          !.effect_list = AppendIfAbsent(@, row[1])],
                      Tail(scenes))
set_default_scenes(e) == SetScenes(e, DefaultScenes)

\* lines 186-199: the options of a musicMode capability join the effect list
\* as "Music: <name>" and _music_modes
RECURSIVE MusicOptions(_, _)
MusicOptions(e, options) ==
    IF options = <<>> THEN e
    ELSE LET mode_name == "Music: " \o Head(options).name
         IN MusicOptions([e EXCEPT
                             !.effect_list = AppendIfAbsent(@, mode_name),
                             !.music_modes = SetKey(@, mode_name,
                                 [musicMode |-> Head(options).value,
                                  sensitivity |-> 50, autoColor |-> 1])],
                         Tail(options))
handle_music_capability(e, cap) ==
    IF cap.instance = "musicMode" THEN MusicOptions(e, cap.options) ELSE e

\* lines 127-142: the dispatch over device_cfg['capabilities']: on_off, range,
\* color_setting and music_setting have a branch, of which only the last
\* touches the effect list; an entry of any other type, a dynamic_scene
\* entry included, matches no branch
RECURSIVE init_platform_specific(_, _)
init_platform_specific(e, capabilities) ==
    IF capabilities = <<>> THEN e
    ELSE LET cap == Head(capabilities)
         IN init_platform_specific(IF cap.type = MUSIC_SETTING
                                   THEN handle_music_capability(e, cap)
                                   ELSE e,
                                   Tail(capabilities))

\* lines 80-100: the constructor: empty tables, the base constructor (which
\* runs _init_platform_specific on the configuration), then the default
\* scenes; cfg is the configuration the entity is built from
GoveeLifeLight(cfg) ==
    LET attrs == [op |-> "light", listed |-> cfg.listed,
                  capabilities |-> cfg.capabilities, merged |-> cfg.merged,
                  scenes |-> cfg.scenes,
                  scene_modes |-> <<>>, music_modes |-> <<>>, effect_list |-> <<>>]
    IN set_default_scenes(init_platform_specific(attrs, cfg.capabilities))

\* light.py line 63, reached from line 204 of async_setup_entry: the light
\* entity of the device is built from its listed configuration
CreateLight ==
    /\ setup.pc = "finishing"
    /\ entity.op = "config"
    /\ LightDevice \in coordinators
    /\ entity' = GoveeLifeLight(entity)
    /\ UNCHANGED <<api_devices, coordinators, cache, vendor, poll, lastPoll, ctl,
                   lastCtl, requests, light, setup, client, hook>>

(* --------------------- humidifier.py: target humidity ------------------ *)
\* humidity values range over 0..MaxHumidity and the defaults' neighbours;
\* at most MaxEntityCalls entity calls are followed
MaxHumidity == 3
MaxEntityCalls == 2

HumidifierDevice == "d2"

\* _attr_min_humidity and _attr_max_humidity before the capabilities are read
DefaultMinHumidity == 30
DefaultMaxHumidity == 80

\* parameters.range of the listed humidity capability, if the device lists one
NoRange == [present |-> FALSE, min |-> 0, max |-> 0]
HumidityRanges ==
    {NoRange} \cup {[present |-> TRUE, min |-> lo, max |-> hi] :
                       lo \in 0..MaxHumidity, hi \in 0..MaxHumidity}

Humidities ==
    (0..(MaxHumidity + 1))
        \cup {DefaultMinHumidity - 1, DefaultMinHumidity,
              DefaultMaxHumidity, DefaultMaxHumidity + 1}

\* _handle_range_capability: the advertised range replaces the defaults
Humidifier(range) ==
    [op |-> "", range |-> range,
     min_humidity |-> IF range.present THEN range.min ELSE DefaultMinHumidity,
     max_humidity |-> IF range.present THEN range.max ELSE DefaultMaxHumidity,
     humidity |-> None, sent |-> <<>>, calls |-> 0]

\* the guard rejecting the range's bounds as well
InvalidHumidity_BoundsExcluded(e, humidity) ==
    humidity <= e.min_humidity \/ humidity >= e.max_humidity

\* line 245
InvalidHumidity(e, humidity) ==
    humidity < e.min_humidity \/ humidity > e.max_humidity

\* async_set_humidity up to its return (rejected) or to the await of the
\* control call; sent lists the commands handed to async_GoveeAPI_ControlDevice
async_set_humidity(d, humidity) ==
    /\ d = HumidifierDevice /\ d \in coordinators
    /\ entity.calls < MaxEntityCalls
    /\ IF InvalidHumidity(entity, humidity)
       THEN /\ entity' = [entity EXCEPT !.op = "set_humidity", !.humidity = humidity,
                              !.sent = <<>>, !.calls = @ + 1]
            /\ UNCHANGED <<api_devices, coordinators, cache, vendor, poll, lastPoll,
                           ctl, lastCtl>>
       ELSE LET capability == Command(HumidityKey, humidity) IN
            /\ ControlSend(d, capability)
            /\ entity' = [entity EXCEPT !.op = "set_humidity", !.humidity = humidity,
                              !.sent = <<capability>>, !.calls = @ + 1]
    /\ UNCHANGED <<requests, light, setup, client, hook>>

(* ------------- humidifier.py, fan.py: work modes (presets) ------------- *)
\* work-mode and gear values range over 1..MaxMode, option lists have at
\* most MaxOptions options
MaxMode == 2
MaxOptions == 2

WORK_MODE == "devices.capabilities.work_mode"
WorkModeKey == <<WORK_MODE, "workMode">>

\* the value of a work-mode command and of a cached work-mode state
WorkModeValue(workMode, modeValue) == [workMode |-> workMode, modeValue |-> modeValue]

\* the options of the capability's `workMode` field and the gear options the
\* `modeValue` field lists for gearMode: (name, value) pairs whose values are
\* distinct within a list, as the values of an ENUM are
Option(name, value) == [name |-> name, value |-> value]
DistinctValues(options) ==
    \A a, b \in 1..Len(options) : options[a].value = options[b].value => a = b
OptionLists(names) ==
    {options \in UNION {[1..m -> {Option(n, v) : n \in names, v \in 1..MaxMode}]
                           : m \in 0..MaxOptions} : DistinctValues(options)}
ModeNames == {"gearMode", "Auto"}
GearNames == {"Low", "High", "Auto"}

\* the listed work_mode capability: hasGearField tells whether a modeValue
\* field mentioning gearMode exists, gears are the options of its first entry
WorkModeCaps ==
    {[modes |-> ms, hasGearField |-> h, gears |-> gs] :
        ms \in OptionLists(ModeNames), h \in BOOLEAN, gs \in OptionLists(GearNames)}

\* _modes_mapping, a dict in insertion order: entries (name, workMode, modeValue)
Names(mapping) == {mapping[k].name : k \in 1..Len(mapping)}

\* self._modes_mapping[base_name] = {...}: a known name keeps its place
SetItem(mapping, name, workMode, modeValue) ==
    IF name \in Names(mapping)
    THEN [k \in 1..Len(mapping) |->
             IF mapping[k].name = name
             THEN [name |-> name, workMode |-> workMode, modeValue |-> modeValue]
             ELSE mapping[k]]
    ELSE Append(mapping, [name |-> name, workMode |-> workMode, modeValue |-> modeValue])

\* lines 162-170 (fan.py 128-136): one mapping entry per gear
RECURSIVE MapGears(_, _, _)
MapGears(mapping, workMode, gears) ==
    IF gears = <<>> THEN mapping
    ELSE MapGears(SetItem(mapping, Head(gears).name, workMode, Head(gears).value),
                  workMode, Tail(gears))

\* lines 153-179 (fan.py 119-145): the loop over the workMode options
RECURSIVE MapModes(_, _, _)
MapModes(mapping, modes, cap) ==
    IF modes = <<>> THEN mapping
    ELSE LET mode == Head(modes)
             mapped == IF mode.name = "gearMode"
                       THEN IF cap.hasGearField
                            THEN MapGears(mapping, mode.value, cap.gears)
                            ELSE mapping
                       ELSE SetItem(mapping, mode.name, mode.value, 0)
         IN MapModes(mapped, Tail(modes), cap)

\* _handle_work_mode_capability of GoveeLifeHumidifier and of GoveeLifeFan
handle_work_mode_capability(cap) == MapModes(<<>>, cap.modes, cap)

\* the `value` async_set_mode and async_set_preset_mode build for a mapped name
ModeCommandValue(mapping, name) ==
    LET k == CHOOSE k \in 1..Len(mapping) : mapping[k].name = name
    IN WorkModeValue(mapping[k].workMode, mapping[k].modeValue)

\* the reverse lookup comparing workMode alone
RECURSIVE FindMode_WorkModeOnly(_, _)
FindMode_WorkModeOnly(mapping, work_mode) ==
    IF mapping = <<>> THEN ""
    ELSE LET values == Head(mapping) IN
         IF values.workMode = work_mode.workMode
         THEN values.name
         ELSE FindMode_WorkModeOnly(Tail(mapping), work_mode)

\* lines 206-210 (fan.py 172-176): the first name whose values match; "" is None
RECURSIVE FindMode(_, _)
FindMode(mapping, work_mode) ==
    IF mapping = <<>> THEN ""
    ELSE LET values == Head(mapping) IN
         IF values.workMode = work_mode.workMode
                /\ values.modeValue = work_mode.modeValue
         THEN values.name
         ELSE FindMode(Tail(mapping), work_mode)

\* the device has a cached work-mode state to read
HasCachedWorkMode(state, d) ==
    /\ state[d].present
    /\ \E k \in 1..Len(state[d].caps) :
           /\ state[d].caps[k].type = WORK_MODE
           /\ state[d].caps[k].instance = "workMode"
           /\ state[d].caps[k].state.shape # "absent"

\* GoveeLifeHumidifier.mode and GoveeLifeFan.preset_mode
mode(mapping, state, d) ==
    IF ~HasCachedWorkMode(state, d) THEN ""
    ELSE FindMode(mapping,
                  GoveeAPI_GetCachedStateValue(state, d, WORK_MODE, "workMode"))

\* the entity built from a listed work_mode capability
ModeEntity(cap) ==
    [op |-> "", modes_mapping |-> handle_work_mode_capability(cap),
     name |-> "", value |-> WorkModeValue(None, None), mode |-> "", calls |-> 0]

\* async_set_mode / async_set_preset_mode up to the return (unknown name) or
\* to the await of the control call
async_set_mode(d, name) ==
    /\ d = HumidifierDevice /\ d \in coordinators
    /\ entity.calls < MaxEntityCalls
    /\ IF name \notin Names(entity.modes_mapping)
       THEN /\ entity' = [entity EXCEPT !.op = "set_mode", !.name = "",
                              !.value = WorkModeValue(None, None), !.calls = @ + 1]
            /\ UNCHANGED <<api_devices, coordinators, cache, vendor, poll, lastPoll,
                           ctl, lastCtl>>
       ELSE LET value == ModeCommandValue(entity.modes_mapping, name) IN
            /\ ControlSend(d, Command(WorkModeKey, value))
            /\ entity' = [entity EXCEPT !.op = "set_mode", !.name = name,
                              !.value = value, !.calls = @ + 1]
    /\ UNCHANGED <<requests, light, setup, client, hook>>

\* the state machine reads the mode / preset_mode property
ReadMode(d) ==
    /\ d = HumidifierDevice /\ ctl[d].pc = "idle"
    /\ entity' = [entity EXCEPT !.op = "mode",
                      !.mode = mode(entity.modes_mapping, cache, d)]
    /\ UNCHANGED <<api_devices, coordinators, cache, vendor, poll, lastPoll, ctl,
                   lastCtl, requests, light, setup, client, hook>>

(* --------------------- light.py: the rgb_color view -------------------- *)
\* the decoding without its masks
rgb_color_Unmasked(state, d) ==
    LET value == GoveeAPI_GetCachedStateValue(state, d, COLOR_SETTING, "colorRgb")
    IN IF value = None THEN NoRgb
       ELSE <<value \div 65536, value \div 256, value>>

\* lines 242-255: (value >> 16) & 0xFF, (value >> 8) & 0xFF, value & 0xFF
rgb_color(state, d) ==
    LET value == GoveeAPI_GetCachedStateValue(state, d, COLOR_SETTING, "colorRgb")
    IN IF value = None THEN NoRgb
       ELSE <<(value \div 65536) % 256, (value \div 256) % 256, value % 256>>

\* the raw colorRgb values a device reports: 0..16777215, here the ones whose
\* components are among ColorLevels
ColorLevels == {0, 1, 128, 255}
RawColors == {(r * 65536) + (g * 256) + b : r \in ColorLevels, g \in ColorLevels,
                                           b \in ColorLevels}

\* rgb: what rgb_color returned
ColorEntity == [op |-> "", rgb |-> NoRgb]

\* the state machine reads rgb_color
ReadRgbColor(d) ==
    /\ d = LightDevice /\ entity.op = ""
    /\ entity' = [entity EXCEPT !.op = "rgb_color", !.rgb = rgb_color(cache, d)]
    /\ UNCHANGED <<api_devices, coordinators, cache, vendor, poll, lastPoll, ctl,
                   lastCtl, requests, light, setup, client, hook>>

\* turn-on is called with the colour read and sends its colorRgb command first
TurnOnWithColorRead(d) ==
    /\ entity.op = "rgb_color" /\ entity.rgb # NoRgb
    /\ async_turn_on(d, [NoKwargs EXCEPT !.rgb_color = entity.rgb])

(* ------------------ the entity views of the State Cache ---------------- *)
ONLINE == "devices.capabilities.online"
PROPERTY_CAP == "devices.capabilities.property"
OnlineKey == <<ONLINE, "online">>
FilterLifeKey == <<PROPERTY_CAP, "filterLifeTime">>

\* a call of GoveeAPI_GetCachedStateValue that, besides returning the value,
\* takes the state out of the entry it read
StateCacheRead_Consuming(state, d, key) ==
    [value |-> GoveeAPI_GetCachedStateValue(state, d, key[1], key[2]),
     state |-> [state EXCEPT ![d].caps =
                   [k \in 1..Len(@) |->
                       IF @[k].type = key[1] /\ @[k].instance = key[2]
                       THEN [@[k] EXCEPT !.state = AbsentState] ELSE @[k]]]]

\* utils.py 255-270 as its caller sees it: the value returned and the State
\* Cache after the call; the lookups are .get() calls and a loop, none of
\* which assigns to the cache or to an entry of it
StateCacheRead(state, d, key) ==
    [value |-> GoveeAPI_GetCachedStateValue(state, d, key[1], key[2]),
     state |-> state]

\* the read of key finds a state
HasCached(state, d, key) ==
    /\ state[d].present
    /\ \E k \in 1..Len(state[d].caps) :
           /\ state[d].caps[k].type = key[1]
           /\ state[d].caps[k].instance = key[2]
           /\ state[d].caps[k].state.shape # "absent"

\* light.py 39-44: round(((value - min) / (max - min)) * 255), None for None;
\* with the scale (1, 100) the quotient is never an odd multiple of one half
value_to_brightness(scale, value) ==
    IF value = None THEN None
    ELSE ((2 * 255 * (value - scale[1])) + (scale[2] - scale[1]))
             \div (2 * (scale[2] - scale[1]))

\* light.py 233-240
brightness(state, d) ==
    value_to_brightness(brightness_scale,
                        GoveeAPI_GetCachedStateValue(state, d, RANGE, "brightness"))

\* the attributes of the light entity of d1: its configuration lists a music
\* mode
LightAttrs ==
    GoveeLifeLight(LightConfig(
        <<ConfigCap(MUSIC_SETTING, "musicMode", <<[name |-> "Rhythm", value |-> 1]>>)>>))

\* light.py 204-231: the name of the first scene whose id is the cached
\* scene's id (the ids of the table are distinct), else of the first music
\* mode whose musicMode is the cached one, else None
effect(attrs, state, d) ==
    LET scenes == IF HasCached(state, d, LightSceneKey)
                  THEN LET scene == GoveeAPI_GetCachedStateValue(state, d, DYNAMIC_SCENE,
                                                                 "lightScene")
                       IN {n \in DOMAIN attrs.scene_modes :
                              scene.id # 0 /\ attrs.scene_modes[n].id = scene.id}
                  ELSE {}
        musics == IF HasCached(state, d, MusicModeKey)
                  THEN LET music == GoveeAPI_GetCachedStateValue(state, d, MUSIC_SETTING,
                                                                 "musicMode")
                       IN {n \in DOMAIN attrs.music_modes :
                              attrs.music_modes[n].musicMode = music.musicMode}
                  ELSE {}
    IN IF scenes # {} THEN CHOOSE n \in scenes : TRUE
       ELSE IF musics # {} THEN CHOOSE n \in musics : TRUE
       ELSE NoEffect

\* humidifier.py 234-240
target_humidity(state, d) == GoveeAPI_GetCachedStateValue(state, d, RANGE, "humidity")

\* entities.py 101-117: the value of the last `online` entry that has a state
\* ({"value": v} gives v, another state False); False without such an entry
\* and for a device that is not cached (the KeyError is caught)
RECURSIVE OnlineScan(_, _)
OnlineScan(capabilities, value) ==
    IF capabilities = <<>> THEN value
    ELSE LET cap == Head(capabilities)
         IN OnlineScan(Tail(capabilities),
                       IF cap.type = ONLINE /\ cap.state.shape # "absent"
                       THEN IF cap.state.shape = "value" THEN cap.state.v ELSE FALSE
                       ELSE value)
available(state, d) ==
    IF ~state[d].present THEN FALSE ELSE OnlineScan(state[d].caps, FALSE)

\* sensor.py 152-172 for the filter_life description (value_fn is the identity)
native_value(state, d) ==
    GoveeAPI_GetCachedStateValue(state, d, PROPERTY_CAP, "filterLifeTime")

\* the mapping of the humidifier and of the fan of the model
ViewModes == <<[name |-> "Low", workMode |-> 1, modeValue |-> 1],
               [name |-> "Auto", workMode |-> 2, modeValue |-> 0]>>

\* the views, the device whose entity has the view, and the keys a view
\* reads through GoveeAPI_GetCachedStateValue (available scans the list
\* itself; effect reads the music mode when the scene gave no name)
ViewNames == {"is_on", "brightness", "rgb_color", "effect", "mode", "preset_mode",
              "target_humidity", "available", "native_value"}
LightViews == {"is_on", "brightness", "rgb_color", "effect", "available"}
ViewDevice(view) == IF view \in LightViews THEN LightDevice ELSE HumidifierDevice

ViewValue(view, state, d) ==
    CASE view = "is_on" -> is_on(state, d)
      [] view = "brightness" -> brightness(state, d)
      [] view = "rgb_color" -> rgb_color(state, d)
      [] view = "effect" -> effect(LightAttrs, state, d)
      [] view = "mode" -> mode(ViewModes, state, d)
      [] view = "preset_mode" -> mode(ViewModes, state, d)
      [] view = "target_humidity" -> target_humidity(state, d)
      [] view = "available" -> available(state, d)
      [] view = "native_value" -> native_value(state, d)

ViewKeys(view, state, d) ==
    CASE view = "is_on" -> <<PowerKey>>
      [] view = "brightness" -> <<BrightnessKey>>
      [] view = "rgb_color" -> <<ColorRgbKey>>
      [] view = "effect" -> IF effect(LightAttrs, state, d) \in DOMAIN LightAttrs.scene_modes
                            THEN <<LightSceneKey>>
                            ELSE <<LightSceneKey, MusicModeKey>>
      [] view = "mode" -> <<WorkModeKey>>
      [] view = "preset_mode" -> <<WorkModeKey>>
      [] view = "target_humidity" -> <<HumidityKey>>
      [] view = "available" -> <<>>
      [] view = "native_value" -> <<FilterLifeKey>>

\* the State Cache after the reads of a view
RECURSIVE AfterReads(_, _, _)
AfterReads(state, d, keys) ==
    IF keys = <<>> THEN state
    ELSE AfterReads(StateCacheRead(state, d, Head(keys)).state, d, Tail(keys))

\* the view read last and the value that read returned, in the field of the
\* view's name
NoViews ==
    [op |-> "", view |-> "", is_on |-> FALSE, brightness |-> None, rgb_color |-> NoRgb,
     effect |-> NoEffect, mode |-> "", preset_mode |-> "", target_humidity |-> None,
     available |-> FALSE, native_value |-> None]

\* the state machine reads a view of an entity
ReadView(view) ==
    LET d == ViewDevice(view) IN
    /\ entity' = [[NoViews EXCEPT !.op = "read", !.view = view]
                      EXCEPT ![view] = ViewValue(view, cache, d)]
    /\ cache' = AfterReads(cache, d, ViewKeys(view, cache, d))
    /\ UNCHANGED <<api_devices, coordinators, vendor, poll, lastPoll, ctl, lastCtl,
                   requests, light, setup, client, hook>>

(* ------------------- services.py: set_poll_interval -------------------- *)
\* const.py: DEFAULT_POLL_INTERVAL
DEFAULT_POLL_INTERVAL == 60

\* the config entry of the integration instance, and what a service call can
\* name: no entry, this entry, an entry that does not exist
EntryId == "entry1"
EntryIds == {"", EntryId, "entry9"}
\* the interval of a call: missing, zero, or a number of seconds
Intervals == {None, 0, 30, 120}

\* scan_interval is entry_data[CONF_SCAN_INTERVAL], speed is
\* entry_data[CONF_SPEED] (None while the key is missing), update_interval is
\* the coordinator's, set by its constructor (entities.py 155-160) from
\* scan_interval; requested is the interval of the last call that went
\* through, next the delay of the refresh scheduled since
IntervalState(scan_interval) ==
    [op |-> "", scan_interval |-> scan_interval, speed |-> None,
     update_interval |-> scan_interval, requested |-> None, next |-> None]

\* services.py 56-69: a call without entry_id or interval returns; else the
\* interval is stored under CONF_SPEED of the entry's data (the KeyError of
\* an unknown entry is caught)
async_service_SetPollInterval(entry_id, interval) ==
    /\ entity' =
           IF entry_id = "" \/ interval = None \/ interval = 0
           THEN [entity EXCEPT !.op = "missing"]
           ELSE IF entry_id # EntryId
           THEN [entity EXCEPT !.op = "failed"]
           ELSE [entity EXCEPT !.op = "updated", !.speed = interval,
                               !.requested = interval, !.next = None]
    /\ UNCHANGED <<api_devices, coordinators, cache, vendor, poll, lastPoll, ctl,
                   lastCtl, requests, light, setup, client, hook>>

\* the coordinator schedules its next refresh update_interval from now
\* (DataUpdateCoordinator, with the update_interval of entities.py 159)
ScheduleRefresh(d) ==
    /\ d \in coordinators
    /\ poll[d].pc = "idle"
    /\ lastPoll[d] # "ConfigEntryAuthFailed"
    /\ entity' = [entity EXCEPT !.next = entity.update_interval]
    /\ UNCHANGED <<api_devices, coordinators, cache, vendor, poll, lastPoll, ctl,
                   lastCtl, requests, light, setup, client, hook>>

(* ---------------- the entity platforms: async_setup_entry -------------- *)
Platforms == {"light", "fan", "sensor", "humidifier"}
DeviceTypes == {"devices.types.light", "devices.types.fan", "devices.types.humidifier"}

\* PLATFORM_DEVICE_TYPES of light.py, fan.py and humidifier.py; sensor.py has
\* no type filter
PLATFORM_DEVICE_TYPES(platform) ==
    CASE platform = "light" -> {"devices.types.light"}
      [] platform = "fan" -> {"devices.types.air_purifier", "devices.types.fan"}
      [] platform = "humidifier" -> {"devices.types.humidifier", "devices.types.dehumidifier"}
      [] platform = "sensor" -> DeviceTypes

\* the entities a platform makes of a device with a coordinator: one for a
\* device of the platform's types; on the sensor platform one per sensor
\* capability (filterLifeTime, airQuality, waterFullEvent) of the device
MakesEntity(platform, cfg, d) ==
    IF platform = "sensor" THEN cfg.sensors[d]
    ELSE cfg.types[d] \in PLATFORM_DEVICE_TYPES(platform)

\* light.py 58-72, fan.py 58-67, sensor.py 98-119: the body of the loop is
\* inside a try; the KeyError of a device without coordinator is logged and
\* the loop goes on
RECURSIVE GuardedLoop(_, _, _, _)
GuardedLoop(platform, cfg, devices, entities) ==
    IF devices = <<>> THEN [entities |-> entities, raised |-> FALSE]
    ELSE LET d == Head(devices)
         IN IF platform # "sensor" /\ cfg.types[d] \notin PLATFORM_DEVICE_TYPES(platform)
            THEN GuardedLoop(platform, cfg, Tail(devices), entities)
            ELSE IF d \notin coordinators
            THEN GuardedLoop(platform, cfg, Tail(devices), entities)
            ELSE GuardedLoop(platform, cfg, Tail(devices),
                             IF MakesEntity(platform, cfg, d)
                             THEN Append(entities, d) ELSE entities)

\* humidifier.py 56-64: the body of the loop is inside no try; the KeyError
\* of entry_data[CONF_COORDINATORS][device] leaves async_setup_entry
RECURSIVE UnguardedLoop(_, _, _, _)
UnguardedLoop(platform, cfg, devices, entities) ==
    IF devices = <<>> THEN [entities |-> entities, raised |-> FALSE]
    ELSE LET d == Head(devices)
         IN IF cfg.types[d] \notin PLATFORM_DEVICE_TYPES(platform)
            THEN UnguardedLoop(platform, cfg, Tail(devices), entities)
            ELSE IF d \notin coordinators
            THEN [entities |-> entities, raised |-> TRUE]
            ELSE UnguardedLoop(platform, cfg, Tail(devices), Append(entities, d))

\* the devices whose entities the platform hands to async_add_entities
\* (`if entities: async_add_entities(entities)` after the loop)
platform_async_setup_entry(platform, cfg) ==
    LET loop == IF platform = "humidifier"
                THEN UnguardedLoop(platform, cfg, api_devices, <<>>)
                ELSE GuardedLoop(platform, cfg, api_devices, <<>>)
    IN IF loop.raised THEN [added |-> {}, raised |-> TRUE]
       ELSE [added |-> Range(loop.entities), raised |-> FALSE]

\* the listed configurations (type, sensor capability) and, per platform
\* that was set up, the devices that got entities
PlatformState(types, sensors) ==
    [op |-> "platforms", types |-> types, sensors |-> sensors,
     added |-> [p \in Platforms |-> {}], done |-> {}, raised |-> {}]

\* __init__.py 204: the config entry is forwarded to a platform, whose
\* async_setup_entry runs
PlatformSetup(platform) ==
    /\ setup.pc = "finishing"
    /\ entity.op = "platforms"
    /\ platform \notin entity.done
    /\ LET got == platform_async_setup_entry(platform, entity)
       IN entity' = [entity EXCEPT !.added[platform] = got.added,
                         !.done = @ \cup {platform},
                         !.raised = IF got.raised THEN @ \cup {platform} ELSE @]
    /\ UNCHANGED <<api_devices, coordinators, cache, vendor, poll, lastPoll, ctl,
                   lastCtl, requests, light, setup, client, hook>>

(* ----------------------------- specification --------------------------- *)
\* a running integration instance: d1 was set up, its first refresh stored
\* the vendor's capability list
KeyLists == {<<>>, <<HumidityKey>>, <<PowerKey, BrightnessKey>>,
             <<BrightnessKey, HumidityKey>>}
ValueLists ==
    {caps \in UNION {[1..Len(keys) -> {Cap(key, ValueState(v)) : key \in CapKeys, v \in Values}]
                        : keys \in KeyLists} :
        \E keys \in KeyLists :
            /\ Len(keys) = Len(caps)
            /\ \A k \in 1..Len(caps) : <<caps[k].type, caps[k].instance>> = keys[k]}

Init ==
    /\ api_devices = <<"d1">>
    /\ coordinators = {"d1"}
    /\ vendor \in [Devices -> ValueLists]
    /\ vendor["d2"] = <<>>
    /\ cache = [d \in Devices |-> IF d = "d1" THEN Snapshot(vendor[d]) ELSE NoSnapshot]
    /\ poll = [d \in Devices |-> IdlePoll]
    /\ lastPoll = [d \in Devices |-> "ok"]
    /\ ctl = [d \in Devices |-> IdleCtl]
    /\ lastCtl = [d \in Devices |-> [ret |-> FALSE, cmd |-> NoCmd]]
    /\ requests = <<>>
    /\ light = IdleLight
    /\ client = IdleClient
    /\ hook = NoHook
    /\ entity = NoEntity
    /\ setup = SetupCompleted(Len(api_devices))

\* no request of device d is in flight
Quiet(d) == poll[d].pc = "idle" /\ ctl[d].pc = "idle"

\* the intended discipline: one outstanding poll or control operation per
\* device at a time (the code does not enforce it: see SpecRace)
Next ==
    \E d \in Devices :
        \/ Quiet(d) /\ PollStart(d)
        \/ VendorAnswerState(d)
        \/ PollReturn(d)
        \/ PollTimeout(d)
        \/ Quiet(d) /\ \E cmd \in Commands : ControlCall(d, cmd)
        \/ VendorAnswerControl(d)
        \/ ControlCallReturn(d)

Spec == Init /\ [][Next]_vars

InitLive == Init /\ Len(vendor["d1"]) <= 1

\* a device with at most one capability under the scheduler of the
\* coordinator: the update-interval timer of d1 keeps
\* firing (it is re-armed after every cycle that did not end with
\* ConfigEntryAuthFailed), a request in flight is answered or fails, and a
\* response that arrived is processed
SpecLive ==
    /\ InitLive /\ [][Next]_vars
    /\ SF_vars(Quiet("d1") /\ PollStart("d1"))
    /\ WF_vars(VendorAnswerState("d1"))
    /\ WF_vars(PollReturn("d1"))
    /\ WF_vars(VendorAnswerControl("d1"))
    /\ WF_vars(ControlCallReturn("d1"))

(* ---------------- SpecCache: full refresh, then cached reads ----------- *)
\* every state shape, and lists that repeat a (type, instance)
AnyEntries ==
    {Cap(key, st) : key \in CapKeys,
                    st \in {AbsentState} \cup {ValueState(v) : v \in Values}
                               \cup {LegacyState(v) : v \in Values}}
AnyLists == UNION {[1..m -> AnyEntries] : m \in 0..MaxCaps}

InitCache ==
    /\ api_devices = <<"d1">>
    /\ coordinators = {"d1"}
    /\ vendor \in [Devices -> AnyLists]
    /\ vendor["d2"] = <<>>
    /\ cache = [d \in Devices |-> IF d = "d1" THEN Snapshot(<<>>) ELSE NoSnapshot]
    /\ poll = [d \in Devices |-> IdlePoll]
    /\ lastPoll = [d \in Devices |-> "ok"]
    /\ ctl = [d \in Devices |-> IdleCtl]
    /\ lastCtl = [d \in Devices |-> [ret |-> FALSE, cmd |-> NoCmd]]
    /\ requests = <<>>
    /\ light = IdleLight
    /\ client = IdleClient
    /\ hook = NoHook
    /\ entity = NoEntity
    /\ setup = SetupCompleted(Len(api_devices))

NextCache ==
    \E d \in Devices :
        \/ PollStart(d)
        \/ VendorAnswerState(d)
        \/ PollReturn(d)
        \/ PollTimeout(d)

SpecCache == InitCache /\ [][NextCache]_vars

(* ------------- SpecRace: a poll and a control call overlapping --------- *)
\* nothing in the code serialises a device's poll against its control calls;
\* here every request either succeeds with a well-formed body or fails in
\* transport
InitRace ==
    /\ Init
    /\ Len(vendor["d1"]) = 2

RaceStateResponse(resp) == resp.status = 0 \/ (~NullResponse(resp) /\ resp.body.hasPayload)
RaceControlResponse(resp) ==
    resp.status = 0 \/ (~NullResponse(resp) /\ resp.body.hasCap /\ resp.body.hasType
                            /\ resp.body.hasInstance /\ resp.body.hasValue)

NextRace ==
    \E d \in Devices :
        \/ PollStart(d)
        \/ VendorAnswerState(d) /\ RaceStateResponse(poll'[d].resp)
        \/ PollReturn(d)
        \/ PollTimeout(d)
        \/ \E cmd \in Commands : ControlCall(d, cmd)
        \/ VendorAnswerControl(d) /\ RaceControlResponse(ctl'[d].resp)
        \/ ControlCallReturn(d)

SpecRace == InitRace /\ [][NextRace]_vars

(* ----------------- SpecLight: one turn-on call of the light ------------ *)
\* the cached snapshots of the light: power alone, power and brightness, or
\* power, brightness and colour temperature
LightLists ==
    {<<Cap(PowerKey, ValueState(p))>> : p \in Values}
        \cup {<<Cap(PowerKey, ValueState(p)), Cap(BrightnessKey, ValueState(b))>> :
                 p \in Values, b \in {1, 100}}
        \cup {<<Cap(PowerKey, ValueState(p)), Cap(BrightnessKey, ValueState(b)),
                Cap(ColorTempKey, ValueState(k))>> :
                 p \in Values, b \in {1, 100}, k \in {2000}}

InitLight ==
    /\ api_devices = <<LightDevice>>
    /\ coordinators = {LightDevice}
    /\ vendor \in [Devices -> LightLists \cup {<<>>}]
    /\ vendor[LightDevice] \in LightLists
    /\ \A d \in Devices \ {LightDevice} : vendor[d] = <<>>
    /\ cache = [d \in Devices |-> IF d = LightDevice THEN Snapshot(vendor[d])
                                  ELSE NoSnapshot]
    /\ poll = [d \in Devices |-> IdlePoll]
    /\ lastPoll = [d \in Devices |-> "ok"]
    /\ ctl = [d \in Devices |-> IdleCtl]
    /\ lastCtl = [d \in Devices |-> [ret |-> FALSE, cmd |-> NoCmd]]
    /\ requests = <<>>
    /\ light = IdleLight
    /\ client = IdleClient
    /\ hook = NoHook
    /\ entity = NoEntity
    /\ setup = SetupCompleted(Len(api_devices))

NextLight ==
    \/ \E kwargs \in Kwargs : async_turn_on(LightDevice, kwargs)
    \/ VendorAnswerControl(LightDevice)
    \/ TurnOnControlReturn(LightDevice)
    \/ TurnOnNextCommand(LightDevice)
    \/ TurnOnReturn(LightDevice)

SpecLight == InitLight /\ [][NextLight]_vars

(* ------------------ SpecSetup: async_setup_entry from its call --------- *)
InitSetup ==
    /\ api_devices = <<>>
    /\ coordinators = {}
    /\ vendor \in [Devices -> ValueLists]
    /\ cache = [d \in Devices |-> NoSnapshot]
    /\ poll = [d \in Devices |-> IdlePoll]
    /\ lastPoll = [d \in Devices |-> "ok"]
    /\ ctl = [d \in Devices |-> IdleCtl]
    /\ lastCtl = [d \in Devices |-> [ret |-> FALSE, cmd |-> NoCmd]]
    /\ requests = <<>>
    /\ light = IdleLight
    /\ client = IdleClient
    /\ hook = NoHook
    /\ entity = NoEntity
    /\ setup = SetupStarting

NextSetup ==
    \/ SetupListDevices
    \/ SetupInitialState
    \/ SetupFirstRefresh
    \/ SetupSubscribe
    \/ SetupScenes
    \/ SetupFinish

SpecSetup == InitSetup /\ [][NextSetup]_vars

(* ------------- SpecHumidifier: the humidifier entity of d2 ------------- *)
InitHumidifier ==
    /\ api_devices = <<"d2">>
    /\ coordinators = {"d2"}
    /\ vendor \in [Devices -> {<<>>, <<Cap(HumidityKey, ValueState(0))>>}]
    /\ vendor["d1"] = <<>> /\ vendor["d2"] # <<>>
    /\ cache = [d \in Devices |-> IF d = "d2" THEN Snapshot(vendor[d]) ELSE NoSnapshot]
    /\ poll = [d \in Devices |-> IdlePoll]
    /\ lastPoll = [d \in Devices |-> "ok"]
    /\ ctl = [d \in Devices |-> IdleCtl]
    /\ lastCtl = [d \in Devices |-> [ret |-> FALSE, cmd |-> NoCmd]]
    /\ requests = <<>>
    /\ light = IdleLight
    /\ client = IdleClient
    /\ hook = NoHook
    /\ setup = SetupCompleted(1)
    /\ entity \in {Humidifier(range) : range \in HumidityRanges}

NextHumidifier ==
    \/ \E humidity \in Humidities : async_set_humidity(HumidifierDevice, humidity)
    \/ VendorAnswerControl(HumidifierDevice)
    \/ ControlCallReturn(HumidifierDevice)

(* ------------- SpecScenes: the scene fetch of a light, then its entity -- *)
InitScenes ==
    /\ api_devices = <<LightDevice>>
    /\ coordinators = {LightDevice}
    /\ vendor = [d \in Devices |-> <<>>]
    /\ cache = [d \in Devices |-> IF d = LightDevice THEN Snapshot(<<>>) ELSE NoSnapshot]
    /\ poll = [d \in Devices |-> IdlePoll]
    /\ lastPoll = [d \in Devices |-> "ok"]
    /\ ctl = [d \in Devices |-> IdleCtl]
    /\ lastCtl = [d \in Devices |-> [ret |-> FALSE, cmd |-> NoCmd]]
    /\ requests = <<>>
    /\ light = IdleLight
    /\ client = IdleClient
    /\ hook = NoHook
    /\ setup = [SetupStarting EXCEPT !.pc = "scenes", !.listing = 200]
    /\ \E listed \in ListedLists : entity = LightConfig(listed)

NextScenes ==
    \/ SetupScenes
    \/ CreateLight
    \/ SetupFinish

SpecScenes == InitScenes /\ [][NextScenes]_vars

(* ------------- SpecColor: read the colour, send it back ---------------- *)
InitColor ==
    /\ api_devices = <<LightDevice>>
    /\ coordinators = {LightDevice}
    /\ vendor \in [Devices -> {<<>>} \cup
                       {<<Cap(PowerKey, ValueState(p)), Cap(ColorRgbKey, ValueState(v))>> :
                           p \in Values, v \in RawColors}]
    /\ vendor[LightDevice] # <<>>
    /\ \A d \in Devices \ {LightDevice} : vendor[d] = <<>>
    /\ cache = [d \in Devices |-> IF d = LightDevice THEN Snapshot(vendor[d])
                                  ELSE NoSnapshot]
    /\ poll = [d \in Devices |-> IdlePoll]
    /\ lastPoll = [d \in Devices |-> "ok"]
    /\ ctl = [d \in Devices |-> IdleCtl]
    /\ lastCtl = [d \in Devices |-> [ret |-> FALSE, cmd |-> NoCmd]]
    /\ requests = <<>>
    /\ light = IdleLight
    /\ client = IdleClient
    /\ hook = NoHook
    /\ setup = SetupCompleted(1)
    /\ entity = ColorEntity

NextColor ==
    \/ ReadRgbColor(LightDevice)
    \/ TurnOnWithColorRead(LightDevice)

SpecColor == InitColor /\ [][NextColor]_vars

SpecHumidifier == InitHumidifier /\ [][NextHumidifier]_vars

(* ------------- SpecModes: set and read the mode of d2 ------------------ *)
\* the cached work-mode values: any pair of values
WorkModeValues == {WorkModeValue(w, m) : w \in 0..MaxMode, m \in 0..MaxMode}

InitModes ==
    /\ api_devices = <<"d2">>
    /\ coordinators = {"d2"}
    /\ vendor \in [Devices -> {<<>>} \cup {<<Cap(WorkModeKey, ValueState(v))>> :
                                               v \in WorkModeValues}]
    /\ vendor["d1"] = <<>> /\ vendor["d2"] # <<>>
    /\ cache = [d \in Devices |-> IF d = "d2" THEN Snapshot(vendor[d]) ELSE NoSnapshot]
    /\ poll = [d \in Devices |-> IdlePoll]
    /\ lastPoll = [d \in Devices |-> "ok"]
    /\ ctl = [d \in Devices |-> IdleCtl]
    /\ lastCtl = [d \in Devices |-> [ret |-> FALSE, cmd |-> NoCmd]]
    /\ requests = <<>>
    /\ light = IdleLight
    /\ client = IdleClient
    /\ hook = NoHook
    /\ setup = SetupCompleted(1)
    /\ entity \in {ModeEntity(cap) : cap \in WorkModeCaps}

NextModes ==
    \/ \E name \in ModeNames \cup GearNames : async_set_mode(HumidifierDevice, name)
    \/ VendorAnswerControl(HumidifierDevice)
    \/ ControlCallReturn(HumidifierDevice)
    \/ ReadMode(HumidifierDevice)

SpecModes == InitModes /\ [][NextModes]_vars

(* ------------------- SpecClient: calls through the API client ---------- *)
NextClient ==
    \/ \E method \in {"GET", "POST"} : ClientSend(method)
    \/ \E response \in ClientResponses : ClientReceive(response)
    \/ NextDay

SpecClient == Init /\ [][NextClient]_vars

(* ------------------- SpecEvents: webhook deliveries -------------------- *)
\* both devices are listed; d1 is cached, d2 is cached or has no entry
InitEvents ==
    /\ api_devices = <<"d1", "d2">>
    /\ coordinators = Devices
    /\ vendor \in [Devices -> {<<>>, <<Cap(HumidityKey, ValueState(0))>>}]
    /\ cache \in [Devices -> {NoSnapshot} \cup {Snapshot(vendor[d]) : d \in Devices}]
    /\ cache["d1"] = Snapshot(vendor["d1"])
    /\ cache["d2"] \in {NoSnapshot, Snapshot(vendor["d2"])}
    /\ poll = [d \in Devices |-> IdlePoll]
    /\ lastPoll = [d \in Devices |-> "ok"]
    /\ ctl = [d \in Devices |-> IdleCtl]
    /\ lastCtl = [d \in Devices |-> [ret |-> FALSE, cmd |-> NoCmd]]
    /\ requests = <<>>
    /\ light = IdleLight
    /\ client = IdleClient
    /\ hook = NoHook
    /\ entity = NoEntity
    /\ setup = SetupCompleted(2)

NextEvents == \E body \in Bodies : WebhookDeliver(body)

SpecEvents == InitEvents /\ [][NextEvents]_vars

(* ------- SpecIsolation: two devices polled, controlled and notified ---- *)
\* both devices are set up and cached; the polls of d1, the control calls
\* of d2 and the events of either device interleave freely
InitIsolation ==
    /\ api_devices = <<"d1", "d2">>
    /\ coordinators = Devices
    /\ vendor = [d \in Devices |-> IF d = "d1" THEN <<Cap(PowerKey, ValueState(0))>>
                                   ELSE <<Cap(HumidityKey, ValueState(0))>>]
    /\ cache = [d \in Devices |-> Snapshot(vendor[d])]
    /\ poll = [d \in Devices |-> IdlePoll]
    /\ lastPoll = [d \in Devices |-> "ok"]
    /\ ctl = [d \in Devices |-> IdleCtl]
    /\ lastCtl = [d \in Devices |-> [ret |-> FALSE, cmd |-> NoCmd]]
    /\ requests = <<>>
    /\ light = IdleLight
    /\ client = IdleClient
    /\ hook = NoHook
    /\ entity = NoEntity
    /\ setup = SetupCompleted(2)

\* the commands the humidifier entity of d2 sends
IsolationCommands == {Command(HumidityKey, v) : v \in Values}

\* the events the vendor sends about the two devices: the water tank is empty
IsolationBodies ==
    {b \in Bodies : /\ b.kind = "event" /\ b.event.device \in Devices
                    /\ b.event.hasCaps
                    /\ b.event.caps = <<Cap(LackWaterKey, ValueState(1))>>}

NextIsolation ==
    \/ PollStart("d1")
    \/ VendorAnswerState("d1")
    \/ PollReturn("d1")
    \/ PollTimeout("d1")
    \/ \E cmd \in IsolationCommands : ControlCall("d2", cmd)
    \/ VendorAnswerControl("d2")
    \/ ControlCallReturn("d2")
    \/ \E body \in IsolationBodies : WebhookDeliver(body)

SpecIsolation == InitIsolation /\ [][NextIsolation]_vars

(* ------- SpecViews: the writers of the State Cache and its readers ------ *)
\* d1 is a light, d2 a humidifier; both are cached
InitViews ==
    /\ api_devices = <<"d1", "d2">>
    /\ coordinators = Devices
    /\ vendor = [d \in Devices |->
                    IF d = LightDevice
                    THEN <<Cap(OnlineKey, ValueState(TRUE)), Cap(PowerKey, ValueState(1)),
                           Cap(BrightnessKey, ValueState(1)),
                           Cap(ColorRgbKey, ValueState(16711680)),
                           Cap(LightSceneKey, ValueState([id |-> 197, paramId |-> 178]))>>
                    ELSE <<Cap(OnlineKey, ValueState(TRUE)), Cap(HumidityKey, ValueState(0)),
                           Cap(WorkModeKey, ValueState(WorkModeValue(2, 0))),
                           Cap(FilterLifeKey, ValueState(1))>>]
    /\ cache = [d \in Devices |-> Snapshot(vendor[d])]
    /\ poll = [d \in Devices |-> IdlePoll]
    /\ lastPoll = [d \in Devices |-> "ok"]
    /\ ctl = [d \in Devices |-> IdleCtl]
    /\ lastCtl = [d \in Devices |-> [ret |-> FALSE, cmd |-> NoCmd]]
    /\ requests = <<>>
    /\ light = IdleLight
    /\ client = IdleClient
    /\ hook = NoHook
    /\ entity = NoViews
    /\ setup = SetupCompleted(2)

\* the command the humidifier entity sends and the event the vendor sends
\* about the light
ViewCommand == Command(HumidityKey, 1)
ViewBody ==
    [kind |-> "event",
     event |-> [isDict |-> TRUE, device |-> LightDevice, hasCaps |-> TRUE,
                caps |-> <<Cap(LackWaterKey, ValueState(1))>>]]

\* a poll cycle of the light and a control call of the humidifier are started
\* one at a time; the views are read at any moment
NextViews ==
    \/ ctl[HumidifierDevice].pc = "idle" /\ PollStart(LightDevice)
    \/ VendorAnswerState(LightDevice)
    \/ PollReturn(LightDevice)
    \/ poll[LightDevice].pc = "idle" /\ ControlCall(HumidifierDevice, ViewCommand)
    \/ VendorAnswerControl(HumidifierDevice)
    \/ ControlCallReturn(HumidifierDevice)
    \/ WebhookDeliver(ViewBody)
    \/ \E view \in ViewNames : ReadView(view)

SpecViews == InitViews /\ [][NextViews]_vars

(* ------- SpecInterval: the poll interval service and the polls --------- *)
InitInterval ==
    /\ api_devices = <<"d1">>
    /\ coordinators = {"d1"}
    /\ vendor \in [Devices -> {<<>>, <<Cap(PowerKey, ValueState(1))>>}]
    /\ vendor["d2"] = <<>>
    /\ cache = [d \in Devices |-> IF d = "d1" THEN Snapshot(vendor[d]) ELSE NoSnapshot]
    /\ poll = [d \in Devices |-> IdlePoll]
    /\ lastPoll = [d \in Devices |-> "ok"]
    /\ ctl = [d \in Devices |-> IdleCtl]
    /\ lastCtl = [d \in Devices |-> [ret |-> FALSE, cmd |-> NoCmd]]
    /\ requests = <<>>
    /\ light = IdleLight
    /\ client = IdleClient
    /\ hook = NoHook
    /\ setup = SetupCompleted(1)
    /\ \E scan_interval \in {DEFAULT_POLL_INTERVAL, 30} :
           entity = IntervalState(scan_interval)

NextInterval ==
    \/ \E entry_id \in EntryIds, interval \in Intervals :
           async_service_SetPollInterval(entry_id, interval)
    \/ ScheduleRefresh("d1")
    \/ PollStart("d1")
    \/ VendorAnswerState("d1")
    \/ PollReturn("d1")

SpecInterval == InitInterval /\ [][NextInterval]_vars

(* ------- SpecPlatforms: the platforms after the device loop ------------ *)
\* two listed devices of any type, each with or without a coordinator (a
\* device whose initialization failed has none)
InitPlatforms ==
    /\ api_devices \in {<<"d1", "d2">>, <<"d2", "d1">>}
    /\ coordinators \in SUBSET Devices
    /\ vendor = [d \in Devices |-> <<>>]
    /\ cache = [d \in Devices |-> IF d \in coordinators THEN Snapshot(<<>>) ELSE NoSnapshot]
    /\ poll = [d \in Devices |-> IdlePoll]
    /\ lastPoll = [d \in Devices |-> "ok"]
    /\ ctl = [d \in Devices |-> IdleCtl]
    /\ lastCtl = [d \in Devices |-> [ret |-> FALSE, cmd |-> NoCmd]]
    /\ requests = <<>>
    /\ light = IdleLight
    /\ client = IdleClient
    /\ hook = NoHook
    /\ setup = [SetupStarting EXCEPT !.pc = "finishing", !.i = 3, !.listing = 200]
    /\ \E types \in [Devices -> DeviceTypes], sensors \in [Devices -> BOOLEAN] :
           entity = PlatformState(types, sensors)

NextPlatforms ==
    \/ \E platform \in Platforms : PlatformSetup(platform)
    \/ SetupFinish

SpecPlatforms == InitPlatforms /\ [][NextPlatforms]_vars

(* ------------- light.py: the descriptor of a light entity -------------- *)
\* a listed capability as the light's constructor reads it: hasType is
\* FALSE for an entry without `type`, hasParameters for one whose
\* `parameters` lacks the member the handler reads (options for on_off,
\* range for the range and colour temperature entries)
TOGGLE == "devices.capabilities.toggle"
DescriptorCap(type, instance, hasParameters, min, max) ==
    [hasType |-> TRUE, type |-> type, instance |-> instance,
     hasParameters |-> hasParameters, min |-> min, max |-> max]

\* on_off with the options {on: 1, off: 0}, a brightness range 0..254, colorRgb,
\* a colour temperature range 2700..6500, each also without its parameters, an
\* entry of a type no branch handles, and an entry without `type`
DescriptorCaps ==
    {DescriptorCap(ON_OFF, "powerSwitch", p, 0, 1) : p \in BOOLEAN}
        \cup {DescriptorCap(RANGE, "brightness", p, 0, 254) : p \in BOOLEAN}
        \cup {DescriptorCap(COLOR_SETTING, "colorRgb", TRUE, 0, 16777215)}
        \cup {DescriptorCap(COLOR_SETTING, "colorTemperatureK", p, 2700, 6500) : p \in BOOLEAN}
        \cup {DescriptorCap(TOGGLE, "oscillationToggle", TRUE, 0, 1)}
        \cup {[DescriptorCap(TOGGLE, "oscillationToggle", TRUE, 0, 1) EXCEPT !.hasType = FALSE]}

\* a listed light has at most MaxDescriptor capabilities
MaxDescriptor == 3
DescriptorLists == UNION {[1..n -> DescriptorCaps] : n \in 0..MaxDescriptor}

\* lines 83-95: the attributes the constructor sets before the dispatch;
\* warnings counts the entries the dispatch logged and skipped
LightDescriptor(capabilities) ==
    [op |-> "descriptor", capabilities |-> capabilities, built |-> FALSE,
     supported_color_modes |-> {"onoff"}, color_mode |-> "onoff",
     brightness_scale |-> <<1, 100>>,
     min_color_temp_kelvin |-> 2000, max_color_temp_kelvin |-> 9000,
     state_mapping_set |-> [on |-> None, off |-> None],
     warnings |-> 0]

\* lines 144-152: cap['parameters']['options'] raises before any assignment
\* when the options are missing
handle_power_capability(e, cap) ==
    IF ~cap.hasParameters THEN [e EXCEPT !.warnings = @ + 1]
    ELSE [e EXCEPT !.state_mapping_set = [on |-> cap.max, off |-> cap.min]]

\* lines 154-164: the tuple of the scale is evaluated, and raises, before
\* anything is assigned
handle_range_capability(e, cap) ==
    IF cap.instance # "brightness" THEN e
    ELSE IF ~cap.hasParameters THEN [e EXCEPT !.warnings = @ + 1]
    ELSE [e EXCEPT !.brightness_scale = <<cap.min, cap.max>>,
                   !.supported_color_modes =
                       IF "onoff" \in @ THEN {"brightness"} ELSE @ \cup {"brightness"}]

\* lines 166-181: the colour temperature branch adds its mode and sets the
\* current mode before it reads cap['parameters']['range']
handle_color_capability(e, cap) ==
    IF cap.instance = "colorRgb"
    THEN [e EXCEPT !.supported_color_modes = @ \cup {"rgb"},
                   !.color_mode = IF "color_temp" \notin e.supported_color_modes
                                  THEN "rgb" ELSE @]
    ELSE IF cap.instance = "colorTemperatureK"
    THEN LET added ==
                 [e EXCEPT !.supported_color_modes = @ \cup {"color_temp"},
                           !.color_mode = IF "rgb" \notin e.supported_color_modes
                                          THEN "color_temp" ELSE @]
         IN IF ~cap.hasParameters THEN [added EXCEPT !.warnings = @ + 1]
            ELSE [added EXCEPT !.min_color_temp_kelvin = cap.min,
                               !.max_color_temp_kelvin = cap.max]
    ELSE e

\* lines 131-142: one capability of the dispatch, inside its try: an entry
\* without `type` raises at the first comparison, an entry of another type
\* matches no branch
init_capability(e, cap) ==
    IF ~cap.hasType THEN [e EXCEPT !.warnings = @ + 1]
    ELSE IF cap.type = ON_OFF THEN handle_power_capability(e, cap)
    ELSE IF cap.type = RANGE THEN handle_range_capability(e, cap)
    ELSE IF cap.type = COLOR_SETTING THEN handle_color_capability(e, cap)
    ELSE e

\* lines 127-142 on the descriptor attributes: the capabilities in list order
RECURSIVE init_descriptor(_, _)
init_descriptor(e, capabilities) ==
    IF capabilities = <<>> THEN e
    ELSE init_descriptor(init_capability(e, Head(capabilities)), Tail(capabilities))

\* the attributes of the light built from a capability list
DescriptorOf(capabilities) ==
    [init_descriptor(LightDescriptor(capabilities), capabilities) EXCEPT !.built = TRUE]

\* light.py line 63: the light entity is constructed from the listed
\* configuration; an exception of a capability is caught inside the loop
BuildLight ==
    /\ entity.op = "descriptor" /\ ~entity.built
    /\ entity' = DescriptorOf(entity.capabilities)
    /\ UNCHANGED <<api_devices, coordinators, cache, vendor, poll, lastPoll, ctl,
                   lastCtl, requests, light, setup, client, hook>>

\* the entry is unloaded and its platforms with it: the entity is dropped,
\* a later load builds it anew from the listing
UnloadLight ==
    /\ entity.op = "descriptor" /\ entity.built
    /\ entity' = LightDescriptor(entity.capabilities)
    /\ UNCHANGED <<api_devices, coordinators, cache, vendor, poll, lastPoll, ctl,
                   lastCtl, requests, light, setup, client, hook>>

(* ----------- SpecDescriptor: a light built from its listing ------------ *)
InitDescriptor ==
    /\ api_devices = <<LightDevice>>
    /\ coordinators = {LightDevice}
    /\ vendor = [d \in Devices |-> <<>>]
    /\ cache = [d \in Devices |-> IF d = LightDevice THEN Snapshot(<<>>) ELSE NoSnapshot]
    /\ poll = [d \in Devices |-> IdlePoll]
    /\ lastPoll = [d \in Devices |-> "ok"]
    /\ ctl = [d \in Devices |-> IdleCtl]
    /\ lastCtl = [d \in Devices |-> [ret |-> FALSE, cmd |-> NoCmd]]
    /\ requests = <<>>
    /\ light = IdleLight
    /\ client = IdleClient
    /\ hook = NoHook
    /\ setup = SetupCompleted(Len(api_devices))
    /\ \E capabilities \in DescriptorLists : entity = LightDescriptor(capabilities)

NextDescriptor ==
    \/ BuildLight
    \/ UnloadLight

SpecDescriptor == InitDescriptor /\ [][NextDescriptor]_vars

(* --------------- __init__.py: unloading and reloading ------------------ *)
\* the entity slot of SpecTeardown: inflight holds the kinds of request of
\* d1 that were awaiting their answer when the last teardown succeeded
TeardownState == [op |-> "teardown", inflight |-> {}]

\* the requests of d1 in flight
InFlight ==
    (IF poll["d1"].pc # "idle" THEN {"poll"} ELSE {})
        \cup (IF ctl["d1"].pc # "idle" THEN {"control"} ELSE {})

\* lines 253-265: async_unload_entry of a loaded entry up to the await of
\* async_unload_platforms; the webhook is unregistered
UnloadStart ==
    /\ setup.pc = "done" /\ setup.result = "True"
    /\ setup' = [setup EXCEPT !.pc = "unloading"]
    /\ UNCHANGED <<api_devices, coordinators, cache, vendor, poll, lastPoll, ctl,
                   lastCtl, requests, light, client, hook, entity>>

\* lines 265-287: the platforms are unloaded or not; when they are, the
\* update listener is removed and hass.data[DOMAIN] loses the entry with its
\* device list, its coordinators and its State Cache; no request in flight is
\* cancelled
UnloadFinish ==
    /\ setup.pc = "unloading"
    /\ \E unload_ok \in BOOLEAN :
           IF unload_ok
           THEN /\ setup' = [setup EXCEPT !.pc = "unloaded"]
                /\ api_devices' = <<>>
                /\ coordinators' = {}
                /\ cache' = [d \in Devices |-> NoSnapshot]
                /\ entity' = IF entity.op = "teardown"
                             THEN [entity EXCEPT !.inflight = InFlight]
                             ELSE entity
           ELSE /\ setup' = [setup EXCEPT !.pc = "done"]
                /\ UNCHANGED <<api_devices, coordinators, cache, entity>>
    /\ UNCHANGED <<vendor, poll, lastPoll, ctl, lastCtl, requests, light, client, hook>>

\* async_reload_entry (lines 293-296) after the unload, or a later load:
\* async_setup_entry creates the entry's data store anew (lines 59-66) and
\* awaits the device listing
SetupCreateStore ==
    /\ setup.pc = "unloaded"
    /\ setup' = SetupStarting
    /\ UNCHANGED <<api_devices, coordinators, cache, vendor, poll, lastPoll, ctl,
                   lastCtl, requests, light, client, hook, entity>>

(* -------- SpecTeardown: requests in flight across an unload ------------ *)
\* d1 is set up with one capability; its polls and control calls run while
\* the entry is unloaded and set up again
InitTeardown ==
    /\ api_devices = <<"d1">>
    /\ coordinators = {"d1"}
    /\ vendor \in [Devices -> ValueLists]
    /\ vendor["d2"] = <<>>
    /\ Len(vendor["d1"]) = 1
    /\ cache = [d \in Devices |-> IF d = "d1" THEN Snapshot(vendor[d]) ELSE NoSnapshot]
    /\ poll = [d \in Devices |-> IdlePoll]
    /\ lastPoll = [d \in Devices |-> "ok"]
    /\ ctl = [d \in Devices |-> IdleCtl]
    /\ lastCtl = [d \in Devices |-> [ret |-> FALSE, cmd |-> NoCmd]]
    /\ requests = <<>>
    /\ light = IdleLight
    /\ client = IdleClient
    /\ hook = NoHook
    /\ entity = TeardownState
    /\ setup = SetupCompleted(Len(api_devices))

TeardownCommands == {Command(HumidityKey, v) : v \in Values}

NextTeardown ==
    \/ PollStart("d1")
    \/ VendorAnswerState("d1")
    \/ PollReturn("d1")
    \/ PollTimeout("d1")
    \/ \E cmd \in TeardownCommands : ControlCall("d1", cmd)
    \/ VendorAnswerControl("d1")
    \/ ControlCallReturn("d1")
    \/ UnloadStart
    \/ UnloadFinish
    \/ SetupCreateStore

SpecTeardown == InitTeardown /\ [][NextTeardown]_vars

(* ------ SpecReplace: polls, control calls and events of one device ----- *)
\* d1 has one capability; its polls, its control calls and the vendor's
\* events about it interleave freely
InitReplace ==
    /\ Init
    /\ Len(vendor["d1"]) = 1

\* the events the vendor sends about d1: the water tank is empty
ReplaceBodies ==
    {b \in Bodies : /\ b.kind = "event" /\ b.event.device = "d1"
                    /\ b.event.hasCaps
                    /\ b.event.caps = <<Cap(LackWaterKey, ValueState(1))>>}

NextReplace ==
    \/ PollStart("d1")
    \/ VendorAnswerState("d1")
    \/ PollReturn("d1")
    \/ PollTimeout("d1")
    \/ \E cmd \in Commands : ControlCall("d1", cmd)
    \/ VendorAnswerControl("d1")
    \/ ControlCallReturn("d1")
    \/ \E body \in ReplaceBodies : WebhookDeliver(body)

SpecReplace == InitReplace /\ [][NextReplace]_vars

(* ------- SpecOverlap: polls completing during one control call --------- *)
\* the last poll cycle of d1 failed, so the cache holds the snapshot of an
\* earlier one; a single control call is made and polls start only while it
\* is in flight: lastPoll = "ok" then tells that a poll completed during it
InitOverlap ==
    /\ api_devices = <<"d1">>
    /\ coordinators = {"d1"}
    /\ vendor \in [Devices -> ValueLists]
    /\ vendor["d2"] = <<>>
    /\ Len(vendor["d1"]) = 2
    /\ cache = [d \in Devices |-> IF d = "d1" THEN Snapshot(vendor[d]) ELSE NoSnapshot]
    /\ poll = [d \in Devices |-> IdlePoll]
    /\ lastPoll = [d \in Devices |-> "NameError"]
    /\ ctl = [d \in Devices |-> IdleCtl]
    /\ lastCtl = [d \in Devices |-> [ret |-> FALSE, cmd |-> NoCmd]]
    /\ requests = <<>>
    /\ light = IdleLight
    /\ client = IdleClient
    /\ hook = NoHook
    /\ entity = NoEntity
    /\ setup = SetupCompleted(Len(api_devices))

NextOverlap ==
    \/ lastCtl["d1"].cmd = NoCmd /\ \E cmd \in Commands : ControlCall("d1", cmd)
    \/ ctl["d1"].pc # "idle" /\ PollStart("d1")
    \/ VendorAnswerState("d1") /\ RaceStateResponse(poll'["d1"].resp)
    \/ PollReturn("d1")
    \/ PollTimeout("d1")
    \/ VendorAnswerControl("d1") /\ RaceControlResponse(ctl'["d1"].resp)
    \/ ControlCallReturn("d1")

SpecOverlap == InitOverlap /\ [][NextOverlap]_vars

(* ------------------------------ properties ----------------------------- *)
Get(state, d, key) == GoveeAPI_GetCachedStateValue(state, d, key[1], key[2])

\* the keys the properties read the cache at
AllKeys == CapKeys

\* a control call of device d completes in this step
ControlCompletes(d) == ctl[d].pc = "answered" /\ ctl'[d].pc = "idle"

\* a poll cycle of device d completes in this step
PollCompletes(d) == poll[d].pc # "idle" /\ poll'[d].pc = "idle"

\* the echo is missing or lacks type, instance or value
MalformedEcho(e) == ~e.hasCap \/ ~e.hasType \/ ~e.hasInstance \/ ~e.hasValue

\* C1: after a control call that fails (null response, non-2xx status,
\* transport error, or an echo that is missing or lacks type, instance or
\* value) every (type, instance) of the device reads its previous value.
C1_FailedControlKeepsCache ==
    [][\A d \in Devices :
        (ControlCompletes(d)
            /\ (NullResponse(ctl[d].resp) \/ MalformedEcho(ctl[d].resp.body)))
        => \A key \in AllKeys : Get(cache', d, key) = Get(cache, d, key)]_vars

\* C2: after a successful control call whose echo carries (type, instance,
\* value), the cache reads the echoed value at (type, instance), whether or
\* not it held an entry for it before.
C2_EchoIsReadBack ==
    [][\A d \in Devices :
        (ControlCompletes(d)
            /\ ~NullResponse(ctl[d].resp) /\ ~MalformedEcho(ctl[d].resp.body))
        => Get(cache', d, <<ctl[d].resp.body.type, ctl[d].resp.body.instance>>)
               = ctl[d].resp.body.value]_vars

\* the entries of a snapshot whose (type, instance) is not that of the echo
OtherEntries(snap, e) ==
    {c \in Range(snap.caps) :
        ~(e.hasType /\ e.hasInstance /\ c.type = e.type /\ c.instance = e.instance)}

\* C3: a successful control call leaves every cached entry with a (type,
\* instance) other than the echoed one present and with the same state.
C3_PatchKeepsOtherEntries ==
    [][\A d \in Devices :
        (ControlCompletes(d) /\ lastCtl'[d].ret)
        => /\ OtherEntries(cache'[d], ctl[d].resp.body)
                  = OtherEntries(cache[d], ctl[d].resp.body)
           /\ cache'[d].present = cache[d].present
           /\ Len(cache'[d].caps) = Len(cache[d].caps)]_vars

\* a command echo was patched in and an entry of another key, holding another
\* value, is still cached beside it
C3_Witness ==
    \E d \in Devices :
        /\ ctl[d].pc = "idle" /\ lastCtl[d].ret
        /\ Get(cache, d, <<lastCtl[d].cmd.type, lastCtl[d].cmd.instance>>)
               = lastCtl[d].cmd.value
        /\ \E c \in Range(cache[d].caps) :
               /\ <<c.type, c.instance>> # <<lastCtl[d].cmd.type, lastCtl[d].cmd.instance>>
               /\ c.type = lastCtl[d].cmd.type
               /\ c.state.shape = "value" /\ c.state.v # lastCtl[d].cmd.value

\* C7: a poll cycle that fails (timeout, null response, non-2xx status,
\* transport exception, unparsable body) leaves the cached snapshot as it was.
C7_FailedPollKeepsCache ==
    [][\A d \in Devices :
        (PollCompletes(d)
            /\ (lastPoll'[d] # "ok"
                   \/ (poll[d].pc = "answered" /\ NullResponse(poll[d].resp))))
        => cache'[d] = cache[d]]_vars

\* a poll cycle has failed and a cached value that the vendor has since
\* changed is still readable
C7_Witness ==
    \E d \in Devices :
        /\ poll[d].pc = "idle" /\ lastPoll[d] # "ok"
        /\ \E key \in AllKeys :
               /\ Get(cache, d, key) # None
               /\ Get(cache, d, key) # ScanCached(vendor[d], key[1], key[2])

\* C10: a 401 answer to a scheduled poll is one failed cycle with an
\* update-failed outcome: the cache stays as it was and the device is still
\* scheduled for the next interval.
C10_Poll401IsUpdateFailed ==
    [][\A d \in Devices :
        (PollCompletes(d) /\ poll[d].pc = "answered" /\ poll[d].resp.status = 401)
        => /\ lastPoll'[d] = "UpdateFailed"
           /\ cache'[d] = cache[d]
           /\ d \in coordinators' /\ lastPoll'[d] # "ConfigEntryAuthFailed"]_vars

\* the positions of a capability list that match (type, instance)
Matching(caps, key) ==
    {k \in 1..Len(caps) : caps[k].type = key[1] /\ caps[k].instance = key[2]}

\* the state.value of an entry: absent unless the state has a `value` field
StateValue(c) == IF c.state.shape = "value" THEN c.state.v ELSE None

\* state.value, or for a state without `value` its field named as the instance
StateValueOrLegacy(c) ==
    IF c.state.shape \in {"value", "legacy"} THEN c.state.v ELSE None

\* a successful refresh of device d completes in this step
RefreshCompletes(d) ==
    /\ PollCompletes(d) /\ lastPoll'[d] = "ok"
    /\ poll[d].pc = "answered" /\ ~NullResponse(poll[d].resp)

\* the capability snapshot of a state response
SnapshotOf(resp) == IF resp.body.hasPayload THEN resp.body.caps ELSE <<>>

\* C4 as stated: after a successful refresh every read returns the state.value
\* of the snapshot's entry for (type, instance), absent when there is none.
C4_GetAfterReplace ==
    [][\A d \in Devices :
        (RefreshCompletes(d) /\ UniqueKeys(SnapshotOf(poll[d].resp)))
        => \A key \in AllKeys :
               LET snapshot == SnapshotOf(poll[d].resp) IN
               Get(cache', d, key) =
                   IF Matching(snapshot, key) = {} THEN None
                   ELSE StateValue(snapshot[CHOOSE k \in Matching(snapshot, key) : TRUE])]_vars

\* C4 amended: the read returns the entry's state.value or, when the state
\* has no `value` field, the state's field named as the instance.
C4_GetAfterReplaceWithLegacy ==
    [][\A d \in Devices :
        (RefreshCompletes(d) /\ UniqueKeys(SnapshotOf(poll[d].resp)))
        => \A key \in AllKeys :
               LET snapshot == SnapshotOf(poll[d].resp) IN
               Get(cache', d, key) =
                   IF Matching(snapshot, key) = {} THEN None
                   ELSE StateValueOrLegacy(
                            snapshot[CHOOSE k \in Matching(snapshot, key) : TRUE])]_vars

\* a refresh stored a snapshot with unique keys holding a legacy-shaped entry
\* and a state.value entry of the same type, and both are read back
C4_Witness ==
    \E d \in Devices :
        /\ poll[d].pc = "idle" /\ lastPoll[d] = "ok"
        /\ cache[d] = Snapshot(vendor[d]) /\ UniqueKeys(vendor[d])
        /\ Len(vendor[d]) = 2
        /\ vendor[d][1].type = vendor[d][2].type
        /\ vendor[d][1].state.shape = "legacy"
        /\ vendor[d][2].state.shape = "value"
        /\ Get(cache, d, <<vendor[d][1].type, vendor[d][1].instance>>) = vendor[d][1].state.v
        /\ Get(cache, d, <<vendor[d][2].type, vendor[d][2].instance>>) = vendor[d][2].state.v
        /\ vendor[d][1].state.v # vendor[d][2].state.v

\* the value the vendor holds for (type, instance) of device d
VendorValue(state, d, key) == ScanCached(state[d], key[1], key[2])

\* C8: however a poll and a control call interleave, a poll response read at
\* the vendor before the command was applied never replaces the value patched
\* from the command's echo: a cached value that agrees with the vendor still
\* agrees with it when the poll completes.
C8_NoStaleOverwrite ==
    [][\A d \in Devices : \A key \in AllKeys :
        (PollCompletes(d) /\ Get(cache, d, key) # None
            /\ Get(cache, d, key) = VendorValue(vendor, d, key))
        => Get(cache', d, key) = VendorValue(vendor', d, key)]_vars

(* ------------------------ light turn-on properties -------------------- *)
\* the turn-on call has returned
TurnOnDone == light.pc = "done"

\* every request of the turn-on call was answered with a full echo
AllEchoed == \A k \in 1..Len(light.echoed) : light.echoed[k]

\* C5: a turn-on action that needs N >= 2 commands issues exactly one
\* device/control request, whose capability field is the ordered list of all
\* N commands under a single requestId.
C5_OneRequestPerAction ==
    (TurnOnDone /\ Len(light.commands) >= 2)
    => /\ Len(requests) = 1
       /\ requests[1].capability = light.commands

\* the C6 call: brightness 128 of 255 and nothing else, on a light cached off
TurnOn128 ==
    /\ TurnOnDone
    /\ light.kwargs = [NoKwargs EXCEPT !.brightness = 128]
    /\ ~light.was_on

RECURSIVE CommandsSent(_)
CommandsSent(reqs) ==
    IF reqs = <<>> THEN <<>> ELSE Head(reqs).capability \o CommandsSent(Tail(reqs))

C9_Setup401IsFatal ==
    (setup.pc = "done" /\ setup.unauthorized)
    => setup.result \notin {"True", "ConfigEntryNotReady"}

(* ---------------------- poll failure classification -------------------- *)
\* C11: a poll cycle whose state request is answered 401 or 429 ends with
\* the authentication-required failure (ConfigEntryAuthFailed), which is
\* terminal: the device is not polled again.
C11_Poll401Or429IsAuthFailed ==
    [][\A d \in Devices :
        (PollCompletes(d) /\ poll[d].pc = "answered" /\ poll[d].resp.status \in {401, 429})
        => lastPoll'[d] = "ConfigEntryAuthFailed"]_vars

(* ------------------------- setup: device listing ----------------------- *)
\* C12: a setup whose device listing was answered 401 ends with the fatal
\* authentication failure, not with the retryable not-ready condition, and
\* creates no coordinator.
C12_Listing401IsAuthFailed ==
    (setup.pc = "done" /\ setup.listing = 401)
        => (setup.result = "ConfigEntryAuthFailed" /\ coordinators = {})

(* ------------------------------ API client ----------------------------- *)
ClientReturns == client.pc = "sent" /\ client'.pc = "idle"
Is2xx(status) == status \in 200..299

\* C13: a call through the client returns to its caller; 429, 401, any
\* other non-2xx status and a transport exception yield null, every 2xx
\* response yields the parsed JSON body.
C13_Every2xxYieldsJson ==
    [][ClientReturns =>
          LET r == client'.response IN
          IF Is2xx(r.status) THEN ~client'.result.none /\ client'.result.json = r.body
          ELSE client'.result.none]_vars

\* C13, as the code has it: only status 200 with a body that parses yields
\* a value, the POST the parsed body and the GET the body's `data` member
\* (null when the body has none); every other answer yields null.
C13_Only200YieldsJson ==
    [][ClientReturns =>
          LET r == client'.response
              res == client'.result
          IN IF r.status = 200 /\ r.parsable
             THEN IF client.method = "POST" THEN ~res.none /\ res.json = r.body
                  ELSE IF r.body.hasData THEN ~res.none /\ res.json = r.body.data
                  ELSE res.none
             ELSE res.none]_vars

C13_Witness ==
    /\ client.pc = "idle" /\ client.method = "GET"
    /\ client.response.status = 201 /\ client.response.parsable
    /\ client.result.none

\* C14: after a call the stored counter shows the number of calls made on
\* the current calendar day.
C14_CounterCountsTodaysCalls ==
    [][(client.pc = "idle" /\ client'.pc = "sent")
          => (client'.api_count.present /\ client'.api_count.count = client'.calls)]_vars

(* --------------------------- device isolation -------------------------- *)
\* a webhook event naming device d is handled in this step
EventHandled(d) ==
    /\ hook'.delivered = hook.delivered + 1
    /\ hook'.body.kind = "event" /\ hook'.body.event.isDict
    /\ hook'.body.event.device = d

\* C15: a poll cycle, a control call or a webhook event of device d leaves
\* the cached snapshot of every other device unchanged, whether the
\* operation succeeds or fails.
C15_OtherDevicesUnchanged ==
    [][\A d \in Devices :
          (PollCompletes(d) \/ ControlCompletes(d) \/ EventHandled(d))
              => \A e \in Devices \ {d} : cache'[e] = cache[e]]_vars

\* d1's poll was answered 401 after an event replaced d1's snapshot and a
\* command of d2 was patched into d2's snapshot
C15_Witness ==
    /\ poll["d1"].pc = "answered" /\ poll["d1"].resp.status = 401
    /\ hook.fired >= 1 /\ hook.body.event.device = "d1" /\ hook.body.event.hasCaps
    /\ cache["d1"] = Snapshot(hook.body.event.caps)
    /\ lastCtl["d2"].ret /\ lastCtl["d2"].cmd.value = 1
    /\ cache["d2"] = Snapshot(<<Cap(HumidityKey, ValueState(1))>>)

(* ------------------------- setup: the device loop ---------------------- *)
\* C16: once the device loop is over, every listed device whose own first
\* refresh went through is cached and has its coordinator registered,
\* whatever failed for the other devices and whichever of its own initial
\* fetch, event subscription or scene fetch failed; and a setup that got its
\* listing does not end as not-ready: it goes on to its final steps.
C16_FailedDeviceSkippedAlone ==
    /\ (setup.listing = 200 /\ setup.pc = "done" /\ api_devices # <<>>)
           => setup.result \in {"True", "False"}
    /\ (setup.listing = 200 /\ setup.pc \in {"finishing", "done"})
           => \A e \in Range(api_devices) :
                  <<e, "first_refresh">> \notin setup.failed
                      => (e \in coordinators /\ cache[e].present)

\* d1's first refresh failed and d2's subscription failed; d2 is registered
\* and cached and setup completed
C16_Witness ==
    /\ setup.pc = "done" /\ setup.result = "True" /\ api_devices = <<"d1", "d2">>
    /\ <<"d1", "first_refresh">> \in setup.failed /\ "d1" \notin coordinators
    /\ <<"d2", "subscribe">> \in setup.failed
    /\ "d2" \in coordinators /\ cache["d2"] = Snapshot(vendor["d2"])
    /\ vendor["d2"] # <<>>

\* C17: a first refresh is issued for a device, and a coordinator exists for
\* it, only when the device already has a State Cache entry.
C17_RefreshOnlyWithBaseline ==
    /\ setup.pc = "first_refresh" => cache[api_devices[setup.i]].present
    /\ \A d \in coordinators : cache[d].present

(* ------------------------- poll loop: recovery ------------------------- *)
\* the state endpoint answers d's requests with the device's state, in time
AnsweredWell(d) ==
    /\ ~PollTimeout(d)
    /\ VendorAnswerState(d)
           => (~NullResponse(poll'[d].resp) /\ poll'[d].resp.body.hasPayload)

\* C18: a poll cycle of d1 that failed (rate limit, transport failure) does
\* not stop the poll loop: if from some point on the vendor answers the
\* state requests well, a later cycle succeeds and the cache then holds the
\* state the vendor reports.
C18_SoftFailureRecovers ==
    <>[][AnsweredWell("d1")]_vars
        => ((lastPoll["d1"] # "ok")
               ~> (lastPoll["d1"] = "ok" /\ cache["d1"] = Snapshot(vendor["d1"])))

\* after a failed cycle that left the cache behind the vendor, the next
\* cycle was answered with the device's state
C18_Witness ==
    /\ lastPoll["d1"] = "NameError" /\ cache["d1"] # Snapshot(vendor["d1"])
    /\ poll["d1"].pc = "answered"
    /\ ~NullResponse(poll["d1"].resp) /\ poll["d1"].resp.body.hasPayload

(* ----------------------------- webhook events -------------------------- *)
\* a body is delivered to the webhook in this step
Delivered == hook'.delivered = hook.delivered + 1

\* the body is empty, has no `event`, or its event names no device
Unrecognized(body) ==
    \/ body.kind \in {"empty", "noevent"}
    \/ body.kind = "event" /\ body.event.isDict /\ body.event.device = ""

\* the body carries an event that names a device
NamesDevice(body) ==
    body.kind = "event" /\ body.event.isDict /\ body.event.device # ""

\* C19: a body that is empty, has no `event` or whose event names no device
\* fires no notification and changes no State Cache entry.
C19_UnrecognizedBodyIgnored ==
    [][(Delivered /\ Unrecognized(hook'.body))
          => (hook'.fired = hook.fired /\ cache' = cache)]_vars

\* an event without device identifier but with capabilities was delivered
\* to an instance that had fired for an earlier event
C19_Witness ==
    /\ hook.body.kind = "event" /\ hook.body.event.isDict
    /\ hook.body.event.device = "" /\ hook.body.event.hasCaps
    /\ NamesDevice(hook.prev) /\ hook.fired = 1 /\ hook.delivered = 2
    /\ cache["d1"].present

\* C20: delivering again the event that was delivered last changes no State
\* Cache entry and fires exactly one more notification.
C20_RedeliveryIsIdempotent ==
    [][(Delivered /\ hook.delivered >= 1 /\ hook'.body = hook.body)
          => /\ cache' = cache
             /\ NamesDevice(hook.body) => hook'.fired = hook.fired + 1
             /\ ~NamesDevice(hook.body) => hook'.fired = hook.fired]_vars

\* the same event of d1 was delivered twice, replaced the cached
\* capabilities and fired twice
C20_Witness ==
    /\ hook.delivered = 2 /\ hook.body = hook.prev /\ hook.fired = 2
    /\ hook.body.event.device = "d1" /\ hook.body.event.hasCaps
    /\ cache["d1"] = Snapshot(hook.body.event.caps)
    /\ cache["d1"] # Snapshot(vendor["d1"])

\* C21: an event that names a device fires exactly one notification, whose
\* data is the event; the event's capabilities replace those of the named
\* device's snapshot when the device is cached, every other entry is
\* unchanged, and a device without an entry gets none.
C21_EventFiresOnceAndMergesIfCached ==
    [][(Delivered /\ NamesDevice(hook'.body))
          => LET event == hook'.body.event IN
             /\ hook'.fired = hook.fired + 1
             /\ hook'.payload = event
             /\ \A d \in Devices :
                    IF d = event.device /\ cache[d].present /\ event.hasCaps
                    THEN cache'[d] = Snapshot(event.caps)
                    ELSE cache'[d] = cache[d]]_vars

\* an event with capabilities for d2, which has no entry, was fired and left
\* d2 without one, after an event of d1 replaced d1's capabilities
C21_Witness ==
    /\ hook.delivered = 2 /\ hook.fired = 2
    /\ hook.body.event.device = "d2" /\ hook.body.event.hasCaps
    /\ hook.payload = hook.body.event
    /\ ~cache["d2"].present
    /\ hook.prev.event.device = "d1" /\ hook.prev.event.hasCaps
    /\ cache["d1"] = Snapshot(hook.prev.event.caps)

(* ------------------------------ humidifier ----------------------------- *)
\* async_set_humidity is called in this step
SetHumidityCalled == entity'.op = "set_humidity" /\ entity'.calls = entity.calls + 1

\* C22: for a humidifier that advertises a humidity range, a set request
\* below the minimum or above the maximum hands no command to the control
\* pipeline and leaves pipeline and cache as they were; a request within
\* [min, max], bounds included, hands over exactly the one humidity command.
C22_HumidityOutsideRangeRejected ==
    [][(SetHumidityCalled /\ entity.range.present)
          => LET h == entity'.humidity
                 d == HumidifierDevice
             IN IF h < entity.range.min \/ h > entity.range.max
                THEN entity'.sent = <<>> /\ ctl' = ctl /\ cache' = cache
                ELSE /\ entity'.sent = <<Command(HumidityKey, h)>>
                     /\ ctl[d].pc = "idle" /\ ctl'[d].pc = "sent"
                     /\ ctl'[d].cmd = Command(HumidityKey, h)
                     /\ cache' = cache]_vars

\* a request at the maximum was sent and echoed into the cache, then a
\* request one above the maximum was rejected
C22_Witness ==
    /\ entity.op = "set_humidity" /\ entity.calls = 2
    /\ entity.range.present /\ entity.range.min < entity.range.max
    /\ entity.humidity = entity.range.max + 1 /\ entity.sent = <<>>
    /\ lastCtl[HumidifierDevice].ret
    /\ lastCtl[HumidifierDevice].cmd = Command(HumidityKey, entity.range.max)
    /\ cache[HumidifierDevice] = Snapshot(<<Cap(HumidityKey, ValueState(entity.range.max))>>)

(* ------------------------------ work modes ----------------------------- *)
\* a State Cache in which device d holds exactly the work-mode value v
CacheHolding(d, v) ==
    [x \in Devices |-> IF x = d THEN Snapshot(<<Cap(WorkModeKey, ValueState(v))>>)
                       ELSE NoSnapshot]

\* the mapped names whose values are the work-mode value v
NamesOf(mapping, v) ==
    {mapping[k].name : k \in {j \in 1..Len(mapping) :
                                 /\ mapping[j].workMode = v.workMode
                                 /\ mapping[j].modeValue = v.modeValue}}

\* C23: for every name the work-mode parser mapped, the command value built
\* for that name, once it is the cached work-mode value, is resolved to the
\* same name; and whenever the mode is read, a cached value that is no mapped
\* name's value resolves to no name, any other to a name with that value.
C23_ModeRoundTrip ==
    LET mapping == entity.modes_mapping
        d == HumidifierDevice
    IN /\ \A name \in Names(mapping) :
              mode(mapping, CacheHolding(d, ModeCommandValue(mapping, name)), d) = name
       /\ (entity.op = "mode" /\ HasCachedWorkMode(cache, d))
              => LET v == GoveeAPI_GetCachedStateValue(cache, d, WORK_MODE, "workMode")
                 IN IF NamesOf(mapping, v) = {} THEN entity.mode = ""
                    ELSE entity.mode \in NamesOf(mapping, v)

\* a gear mode was set, echoed into the cache and read back, with another
\* gear and another mode mapped
C23_Witness ==
    /\ entity.op = "mode" /\ entity.name = "Low" /\ entity.mode = "Low"
    /\ Len(entity.modes_mapping) = 3
    /\ lastCtl[HumidifierDevice].ret
    /\ cache[HumidifierDevice].caps[1].state.shape = "value"
    /\ cache[HumidifierDevice].caps[1].state.v = entity.value
    /\ vendor[HumidifierDevice] = cache[HumidifierDevice].caps

(* ------------------------------- colours ------------------------------- *)
\* the raw colorRgb value the light's State Cache entry holds
RawColor == GoveeAPI_GetCachedStateValue(cache, LightDevice, COLOR_SETTING, "colorRgb")

\* C24: the colorRgb command value turn-on builds from the triple that
\* rgb_color decoded is the raw value that was decoded.
C24_RgbRoundTrip ==
    (entity.op = "rgb_color" /\ light.pc = "awaiting")
        => light.commands[1] = Command(ColorRgbKey, RawColor)

\* 16711680 was decoded to (255, 0, 0) and encoded to 16711680 again
C24_Witness ==
    /\ entity.op = "rgb_color" /\ light.pc = "awaiting" /\ RawColor = 16711680
    /\ entity.rgb = <<255, 0, 0>> /\ light.kwargs.rgb_color = <<255, 0, 0>>
    /\ ctl[LightDevice].cmd = Command(ColorRgbKey, 16711680)

(* ----------------------------- scene merge ----------------------------- *)
\* the scene capabilities of the answer the merge worked on
FetchedScenes ==
    IF entity.scenes.none THEN <<>>
    ELSE IF ~entity.scenes.json.hasCapabilities THEN <<>>
    ELSE SelectSeq(entity.scenes.json.capabilities,
                   LAMBDA c : c.type = DYNAMIC_SCENE)
IsFetchedKey(c) ==
    \E k \in 1..Len(FetchedScenes) :
        c.type = DYNAMIC_SCENE /\ c.instance = FetchedScenes[k].instance

\* C25: after the scene merge of a light, every dynamic_scene capability of
\* the scene answer has exactly one entry of its (dynamic_scene, instance)
\* in the device's capability list, and that entry is the fetched one; every
\* other entry is where and what it was, and (type, instance) stays unique
\* when it was unique in the listing.
C25_SceneMergeReplacesOrAppends ==
    (entity.op = "config" /\ entity.merged) =>
        LET before == entity.listed
            after == entity.capabilities
        IN /\ \A k \in 1..Len(FetchedScenes) :
                  LET same == {i \in 1..Len(after) :
                                  /\ after[i].type = DYNAMIC_SCENE
                                  /\ after[i].instance = FetchedScenes[k].instance}
                  IN /\ Cardinality(same) = 1
                     /\ \A i \in same : after[i] = FetchedScenes[k]
           /\ Len(after) >= Len(before)
           /\ \A i \in 1..Len(before) :
                  ~IsFetchedKey(before[i]) => after[i] = before[i]
           /\ \A i \in 1..Len(after) :
                  ~IsFetchedKey(after[i]) => i <= Len(before)
           /\ UniqueKeys(before) => UniqueKeys(after)

\* a listing with a lightScene entry and no diyScene entry, an answer with
\* both: the first is replaced in place, the second appended
C25_Witness ==
    /\ entity.op = "config" /\ entity.merged
    /\ Len(FetchedScenes) = 2
    /\ Len(entity.listed) = 2
    /\ entity.listed[1] = ConfigCap(DYNAMIC_SCENE, "lightScene", <<>>)
    /\ entity.listed[2].type = ON_OFF
    /\ Len(entity.capabilities) = 3
    /\ entity.capabilities[1].options # <<>>
    /\ entity.capabilities[2] = entity.listed[2]
    /\ entity.capabilities[3].instance = "diyScene"

(* --------------------------- the scene table --------------------------- *)
DefaultNames == {DefaultScenes[k][1] : k \in 1..Len(DefaultScenes)}

\* C26: the scene table of a light and its effect list hold every default
\* scene and every scene fetched for the device and merged into its
\* capability list; after a failed fetch the table is the default catalog.
C26_SceneTableHasDefaultsAndFetched ==
    entity.op = "light" =>
        /\ \A k \in 1..Len(DefaultScenes) :
               /\ DefaultScenes[k][1] \in DOMAIN entity.scene_modes
               /\ DefaultScenes[k][1] \in Range(entity.effect_list)
        /\ \A c \in Range(entity.capabilities) :
               (c \in Range(FetchedScenes) /\ c.instance = "lightScene") =>
                   \A k \in 1..Len(c.options) :
                       /\ c.options[k].name \in DOMAIN entity.scene_modes
                       /\ c.options[k].name \in Range(entity.effect_list)
        /\ entity.scenes.none =>
               /\ DOMAIN entity.scene_modes = DefaultNames
               /\ \A k \in 1..Len(DefaultScenes) :
                      entity.scene_modes[DefaultScenes[k][1]] =
                          [id |-> DefaultScenes[k][2], paramId |-> DefaultScenes[k][3]]

(* ------------------------- readers and writers ------------------------- *)
\* a view is read in this step
ViewRead == entity' # entity

\* C27: the State Cache changes only in a step that completes a poll
\* refresh, completes a control call or delivers a webhook event; a step
\* that reads an entity view or GoveeAPI_GetCachedStateValue leaves every
\* cache entry as it was.
C27_ReadsLeaveCacheUnchanged ==
    [][/\ ViewRead => cache' = cache
       /\ \A d \in Devices :
              cache'[d] # cache[d] => \/ PollCompletes(d)
                                      \/ ControlCompletes(d)
                                      \/ (Delivered /\ hook'.body.event.device = d)]_vars

\* the target humidity is read after the echo of a command stored it, with
\* the light's entry rewritten by an event
C27_Witness ==
    /\ entity.op = "read" /\ entity.view = "target_humidity"
    /\ entity.target_humidity = 1
    /\ lastCtl[HumidifierDevice].ret
    /\ hook.delivered > 0
    /\ cache[LightDevice].caps = <<Cap(LackWaterKey, ValueState(1))>>
    /\ GoveeAPI_GetCachedStateValue(cache, HumidifierDevice, RANGE, "humidity") = 1

(* ----------------------- the control call's result -------------------- *)
\* C28: a control call returns true only when its response is not null and
\* carries an echo with type, instance and value that is folded into the
\* cache (the cache then reads the echoed value); for a transport error, a
\* status other than 2xx, a response without an echo or a malformed echo it
\* returns false.
C28_TrueOnlyForFoldedEcho ==
    [][\A d \in Devices :
        (ControlCompletes(d) /\ lastCtl'[d].ret) =>
            LET echo == ctl[d].resp.body
            IN /\ ~NullResponse(ctl[d].resp)
               /\ ~MalformedEcho(echo)
               /\ Get(cache', d, <<echo.type, echo.instance>>) = echo.value]_vars

(* --------------------------- the poll interval ------------------------- *)
\* C29: once set_poll_interval was called with the entry's id and an
\* interval, the refresh a coordinator of that entry schedules next is
\* scheduled at the new interval.
C29_NewIntervalSchedulesPolls ==
    (entity.requested # None /\ entity.next # None) => entity.next = entity.requested

(* ----------------------------- the platforms --------------------------- *)
\* C30: when the platforms are set up, every device that has a coordinator
\* gets its entities on each of the light, fan, sensor and humidifier
\* platforms, whichever other device has none.
C30_OtherDevicesGetEntities ==
    entity.op = "platforms" =>
        \A platform \in entity.done :
            \A d \in Range(api_devices) \cap coordinators :
                MakesEntity(platform, entity, d) => d \in entity.added[platform]

(* ------------------------ the poll as a full replace ------------------- *)
\* C31: a poll that succeeds replaces the device's snapshot by the payload
\* of the response: afterwards the cached list is exactly the payload's
\* list, so an entry overlaid by an event or a value patched from an echo is
\* gone unless the payload carries it.
C31_PollReplacesSnapshot ==
    [][\A d \in Devices :
        RefreshCompletes(d) =>
            /\ cache'[d] = Snapshot(SnapshotOf(poll[d].resp))
            /\ \A key \in AllKeys \cup {LackWaterKey} :
                   Matching(SnapshotOf(poll[d].resp), key) = {}
                       => Get(cache', d, key) = None]_vars

\* an event replaced the cached list of d1 and a later poll put the vendor's
\* list back: the event's entry is gone
C31_Witness ==
    /\ hook.fired >= 1
    /\ cache["d1"].present
    /\ cache["d1"].caps = vendor["d1"]
    /\ Matching(cache["d1"].caps, LackWaterKey) = {}
    /\ lastPoll["d1"] = "ok"

(* ------------------- events and the capability list -------------------- *)
\* C32: delivering an event never acts on the capability list: a cached
\* read of any device and any (type, instance) returns the same value after
\* the delivery as before it, whatever fields the event carries.
C32_EventsLeaveReadsUnchanged ==
    [][Delivered =>
          \A d \in Devices : \A key \in AllKeys \cup {LackWaterKey} :
              Get(cache', d, key) = Get(cache, d, key)]_vars

(* --------------------- a response without payload ---------------------- *)
\* C38: a poll answered 200 by a body without `payload` erases nothing:
\* every (type, instance) value readable before the poll completes is still
\* readable, with the same value, after it.
C38_NoPayloadKeepsCache ==
    [][\A d \in Devices :
        (PollCompletes(d) /\ poll[d].pc = "answered"
            /\ ~NullResponse(poll[d].resp) /\ ~poll[d].resp.body.hasPayload) =>
                \A key \in AllKeys :
                    Get(cache, d, key) # None => Get(cache', d, key) = Get(cache, d, key)]_vars

(* ------------------ the capability list and the merge ------------------ *)
\* C33: the scene merge changes a device's capability list at most once and
\* only while that device has no coordinator yet: once the coordinator is
\* built the list never changes.
C33_MergeOnlyBeforeCoordinator ==
    [][(entity.op = "config" /\ entity'.op = "config"
            /\ entity'.capabilities # entity.capabilities) =>
          /\ LightDevice \notin coordinators
          /\ ~entity.merged]_vars

(* ------------------ a poll completing during a control call ------------ *)
\* C36: when a poll of a device completed while a control call of the same
\* device was in flight, the echo is patched into the snapshot the poll
\* stored: as the control call returns success, the read of the echoed
\* (type, instance) returns the echoed value.
C36_EchoPatchedIntoNewSnapshot ==
    [][(ControlCompletes("d1") /\ lastCtl'["d1"].ret /\ lastPoll["d1"] = "ok") =>
          LET echo == ctl["d1"].resp.body
          IN Get(cache', "d1", <<echo.type, echo.instance>>) = echo.value]_vars

(* ----------------------- the power command of turn-on ------------------ *)
\* the positions of the power command in a command list
PowerAt(commands) ==
    {k \in 1..Len(commands) : <<commands[k].type, commands[k].instance>> = PowerKey}

\* C35: a turn-on call includes powerSwitch = on exactly when the cache says
\* the light is not on or the call yields no other command, and then as its
\* last command; when the light is on and an attribute command is produced
\* no power command is sent.  The requests leave in the order of the list.
C35_PowerOnLastWhenNeeded ==
    [][/\ (light.pc = "idle" /\ light'.pc = "awaiting") =>
            LET commands == light'.commands
                kwargs == light'.kwargs
                others == Len(commands) - Cardinality(PowerAt(commands))
            IN /\ (PowerAt(commands) # {})
                      <=> (~is_on(cache, LightDevice) \/ others = 0)
               /\ PowerAt(commands) \subseteq {Len(commands)}
               /\ \A k \in PowerAt(commands) :
                      commands[k].value = state_mapping_set.on
               /\ (kwargs.brightness # None \/ kwargs.color_temp_kelvin # None
                      \/ kwargs.rgb_color # NoRgb) => others > 0
               /\ (is_on(cache, LightDevice) /\ others > 0) => PowerAt(commands) = {}
       /\ light'.pc = "done" =>
            /\ Len(requests') = Len(light'.commands)
            /\ \A k \in 1..Len(requests') :
                   requests'[k].capability = <<light'.commands[k]>>]_vars

\* a turn-on call of a light that was on returned: it sent attribute
\* commands and no power command
C35_Witness ==
    /\ light.pc = "done"
    /\ light.was_on
    /\ Len(light.commands) >= 2
    /\ PowerAt(light.commands) = {}
    /\ Len(requests) = Len(light.commands)

(* ---------------------- the descriptor of a light ---------------------- *)
\* the list without its k-th entry
RemoveAt(s, k) == [j \in 1..(Len(s) - 1) |-> IF j < k THEN s[j] ELSE s[j + 1]]

\* the entry is of a type no branch handles, or lacks `type` or the
\* parameters its handler reads
UnknownOrMalformed(cap) ==
    \/ ~cap.hasType
    \/ cap.type \notin {ON_OFF, RANGE, COLOR_SETTING}
    \/ ~cap.hasParameters

\* the attributes derived from the capabilities
Derived(e) ==
    <<e.state_mapping_set, e.brightness_scale, e.supported_color_modes, e.color_mode,
      e.min_color_temp_kelvin, e.max_color_temp_kelvin>>

\* C34: an unknown or malformed entry of the capability list is skipped and
\* nothing else: the on/off mapping, the ranges and the colour modes of the
\* entity equal those built from the list without that entry.
C34_BadEntryOnlySkipped ==
    (entity.op = "descriptor" /\ entity.built) =>
        \A k \in 1..Len(entity.capabilities) :
            UnknownOrMalformed(entity.capabilities[k]) =>
                Derived(entity) = Derived(DescriptorOf(RemoveAt(entity.capabilities, k)))

\* the orders of a list
Reordered(s) ==
    {[k \in 1..Len(s) |-> s[p[k]]] :
        p \in {q \in [1..Len(s) -> 1..Len(s)] : \A a, b \in 1..Len(s) : q[a] = q[b] => a = b}}

\* the list holds a brightness range and a colour capability, all well formed
HasBrightnessAndColor(s) ==
    /\ \E k \in 1..Len(s) : s[k].hasType /\ s[k].type = RANGE /\ s[k].instance = "brightness"
    /\ \E k \in 1..Len(s) : s[k].hasType /\ s[k].type = COLOR_SETTING
    /\ \A k \in 1..Len(s) : ~UnknownOrMalformed(s[k])

\* C39: the supported colour modes of a light do not depend on the order of
\* its capabilities: a list with a brightness range and colorRgb and/or
\* colorTemperatureK gives the same modes in every order.
C39_ModesIndependentOfOrder ==
    (entity.op = "descriptor" /\ entity.built
        /\ HasBrightnessAndColor(entity.capabilities)) =>
            \A s \in Reordered(entity.capabilities) :
                DescriptorOf(s).supported_color_modes = entity.supported_color_modes

(* -------------------- requests in flight at teardown ------------------- *)
\* C37: once the teardown of the entry has succeeded, a poll or a control
\* request that was in flight and completes later does not recreate the
\* State Cache, writes no cache entry and ends as a failed operation.
C37_LateCompletionFails ==
    [][/\ (PollCompletes("d1") /\ "poll" \in entity.inflight) =>
              (cache' = cache /\ lastPoll'["d1"] # "ok")
       /\ (ControlCompletes("d1") /\ "control" \in entity.inflight) =>
              (cache' = cache /\ ~lastCtl'["d1"].ret)]_vars

====
